---- MODULE Spec2Model ----
(***************************************************************************)
(* A model of the `storage` crate: the bump allocator, the free-list       *)
(* allocator over it, the counting wrapper and the affix combinator.       *)
(*                                                                         *)
(* One behaviour follows one storage object.  `kind` says which one the    *)
(* behaviour is about; it is chosen in Init and never changes.             *)
(*                                                                         *)
(* usize is modelled with UsizeBits bits; every wrapping operation of the  *)
(* source wraps modulo 2^UsizeBits.                                        *)
(***************************************************************************)
EXTENDS Integers, Sequences, FiniteSets, Bags, TLC

VARIABLES
    kind,       \* which storage this behaviour exercises
    offset,     \* BumpStorage.offset (AtomicUsize)
    issued,     \* history: the non-empty blocks the bump allocator returned, in order
    live,       \* the blocks the callers hold: a bag of records [handle, layout]
    pc,         \* per thread: position inside a shared call
    call,       \* per thread: the shared call in progress and its arguments
    prev,       \* per thread: fetch_update's `prev` (the value last read from offset)
    last,       \* the call that completed last, with what it did
    max_length, \* FreeListStorage.max_length
    bitflags,   \* the free list's bitmap bytes: 7 status bits and the lock bit each
    free_list,  \* the free list's slot records, slot k at position k + 1
    oob,        \* history: whether a slot record outside 0 .. max_length - 1 was
                \* written ("written") or read ("read"), else "no"
    inner,      \* what the last completed call did inside: the slot it used and its
                \* calls to the underlying storage
    loc,        \* per thread: the locals of the shared call in progress
    count,      \* CountingBumpStorage.count
    affix,      \* AffixStorage's type parameters: the layouts of Pre and Suf
    mem,        \* the bytes of the memory under the AffixStorage's bump allocator
    pick,       \* Picker: the blocks each child storage has allocated
    rc,         \* RefCounted: the counters, the handles and the single-slot storage
    glob,       \* GLOBAL, INITIALIZER_STATE and what each thread has seen of them
    single,     \* SingleStackStorage: the allocated flag, its twin's, and the callers
    pad         \* Pad's parameters SIZE and ALIGN

flVars == <<max_length, bitflags, free_list, oob, inner, loc>>

vars == <<kind, offset, issued, live, pc, call, prev, last, max_length, bitflags, free_list,
          oob, inner, loc, count, affix, mem, pick, rc, glob, single, pad>>

----------------------------------------------------------------------------
(* Bounds of the model *)

UsizeBits == 8
NumThreads == 2
Space == 3
MaxSize == 2
MAX_ALIGN == 2
MaxLength == 2
SharedSpace == 2
AffixSpace == 4
AffixMemSpace == 5
AffixMemBlocks == 1
SlotSize == 3
MaxCalls == 3
MaxServed == 3

\* the calls of clone_from on the handles of one allocation
MaxCloneFrom == 2

\* the bytes of the bump allocator under a Pad
PadSpace == 4
PickValue == 1
PickerSlots == 2

----------------------------------------------------------------------------
(* usize arithmetic *)

RECURSIVE Pow2(_)
Pow2(n) == IF n = 0 THEN 1 ELSE 2 * Pow2(n - 1)

USIZE_MAX == Pow2(UsizeBits) - 1

wrapping_add(a, b) == (a + b) % Pow2(UsizeBits)

wrapping_sub(a, b) == (a - b + Pow2(UsizeBits)) % Pow2(UsizeBits)

None == -1

\* a subtraction that wraps where checked_sub gives None
unchecked_sub(a, b) == wrapping_sub(a, b)

checked_sub(a, b) == IF a >= b THEN a - b ELSE None

\* an addition that wraps around instead of failing
unchecked_add(a, b) == (a + b) % Pow2(UsizeBits)

checked_add(a, b) == IF a + b <= USIZE_MAX THEN a + b ELSE None

\* a mask that clears nothing
keep_low_bits(x, align) == x

\* x & !(align - 1) for a power-of-two align: clears the low bits of x
RECURSIVE mask_low_bits(_, _)
mask_low_bits(x, align) ==
    IF align <= 1 THEN x ELSE 2 * mask_low_bits(x \div 2, align \div 2)

RECURSIVE next_power_of_two(_)
next_power_of_two(n) ==
    IF n <= 1 THEN 1 ELSE 2 * next_power_of_two((n + 1) \div 2)

Threads == 1 .. NumThreads

Layout(size, align) == [size |-> size, align |-> align]

\* the layouts the callers ask for; the last one is over-aligned for MAX_ALIGN
Layouts == {Layout(s, a) : s \in 0 .. MaxSize, a \in {1, 2}} \cup {Layout(1, 4)}

\* the layouts the callers of the free list ask for: the single caller, and the
\* concurrent callers
FreeListLayouts == {Layout(0, 1), Layout(1, 1), Layout(2, 1), Layout(1, 2)}

SharedLayouts == {Layout(0, 1), Layout(1, 1), Layout(2, 1)}

ZeroBlocks == {[handle |-> USIZE_MAX, layout |-> l] : l \in {Layout(0, 1)}}

\* a test that takes every layout for a non-empty one
always_nonempty(layout) == TRUE

\* NonEmptyLayout::new(layout).is_some()
NonEmptyLayout_new(layout) == layout.size # 0

----------------------------------------------------------------------------
(* BumpStorage *)

MAX_ALIGN_POW2 == next_power_of_two(MAX_ALIGN)

\* Handle::dangling for BumpHandle
BumpHandle_dangling(align) == USIZE_MAX

Ok(handle, size) == [ok |-> TRUE, handle |-> handle, size |-> size]

Err == [ok |-> FALSE, handle |-> None, size |-> 0]

\* an error that carries the layout of an empty request
AllocErr_empty(layout) == [ok |-> FALSE, handle |-> None, size |-> 0, layout |-> Layout(0, 1)]

\* AllocErr::new(layout): the error carries the layout
AllocErr_new(layout) == [ok |-> FALSE, handle |-> None, size |-> 0, layout |-> layout]

\* the offset BumpStorage::allocate_nonempty moves to from `start`, or None
allocate_nonempty_offset(start, layout) ==
    IF MAX_ALIGN_POW2 < layout.align THEN None
    ELSE LET off == checked_sub(start, layout.size)
         IN  IF off = None THEN None ELSE mask_low_bits(off, layout.align)

\* the closure given to fetch_update in shared_allocate_nonempty
fetch_update_closure(off, layout) ==
    LET o == checked_sub(off, layout.size)
    IN  IF o = None THEN None ELSE mask_low_bits(o, layout.align)

\* an exchange that does not compare
exchange_always(current, expected) == TRUE

\* compare_exchange: succeeds when the current value is the expected one
compare_exchange_succeeds(current, expected) == current = expected

\* a layout test that never takes the fast path
never_same(old, new) == FALSE

\* the `old == new` test of grow, grow_zeroed and shrink
same_layout(old, new) == old = new

AllIdle == \A t \in Threads : pc[t] = "idle"

NoCall == [op |-> "none", handle |-> None, old |-> Layout(0, 1), new |-> Layout(0, 1)]

Call(op, handle, old, new) == [op |-> op, handle |-> handle, old |-> old, new |-> new]

\* the scenarios with one caller, who uses the exclusive and the shared methods
\* in turn, and the scenarios with NumThreads concurrent callers
BumpKinds == {"bump", "bump_mt"}

FreeListKinds == {"freelist", "freelist_mt"}

CountingKinds == {"counting"}

\* a CountingBumpStorage that several threads call through &self
CountingSharedKinds == {"counting_mt"}

\* the AffixStorage scenarios: its handles alone, and its handles and the bytes
\* of its memory
AffixKinds == {"affix", "affix_mem"}

PickerKinds == {"picker"}

\* a SingleStackStorage: called through both APIs by one caller, or by threads
SingleStackKinds == {"single", "single_mt"}

\* the global storage: set_global_storage and the requests through Global
GlobalKinds == {"global"}

\* Rc, SlimRc, Arc and SlimArc over an AffixStorage over a single-slot storage
RcKinds == {"rc", "slim_rc", "arc", "slim_arc"}

SingleKinds == {"bump", "freelist", "counting", "picker", "rc", "slim_rc", "pad"} \cup AffixKinds

SingleCaller == kind \in SingleKinds

NoLast ==
    [op |-> "none", arg |-> None, old |-> Layout(0, 1), new |-> Layout(0, 1), res |-> Err,
     nonempty |-> FALSE, copied |-> 0, before |-> 0]

\* the record of a completed call: its arguments, its result, whether it reached
\* allocate_nonempty / deallocate_nonempty, the bytes it copied, and the offset
\* when its last step began.  It is kept for the single caller only, and it is
\* NoLast while a call is in progress.
Last(op, arg, old, new, res, nonempty, copied, before) ==
    IF SingleCaller
    THEN [op |-> op, arg |-> arg, old |-> old, new |-> new, res |-> res,
          nonempty |-> nonempty, copied |-> copied, before |-> before]
    ELSE NoLast

\* thread t may start a call
MayCall(t) == pc[t] = "idle" /\ (SingleCaller => t = 1 /\ AllIdle)

Block(handle, layout) == [handle |-> handle, layout |-> layout]

\* the callers' blocks after one of them receives, or gives up, block b
Take(b) == live (+) SetToBag({b})

Give(b) == live (-) SetToBag({b})

Held == BagToSet(live)

\* BumpStorage::allocate_nonempty from offset `off`: the result and the new offset
BumpStorage_allocate_nonempty(off, layout) ==
    LET new == allocate_nonempty_offset(off, layout)
    IN  IF new = None
        THEN [res |-> AllocErr_new(layout), offset |-> off]
        ELSE [res |-> Ok(new, wrapping_sub(off, new)), offset |-> new]

\* Storage::allocate (the default method) on a BumpStorage at offset `off`
Storage_allocate(off, layout) ==
    IF ~NonEmptyLayout_new(layout)
    THEN [res |-> Ok(BumpHandle_dangling(layout.align), 0), nonempty |-> FALSE, offset |-> off]
    ELSE LET r == BumpStorage_allocate_nonempty(off, layout)
         IN  [res |-> r.res, nonempty |-> TRUE, offset |-> r.offset]

\* Storage::deallocate (the default method): whether deallocate_nonempty is called
Storage_deallocate(layout) == NonEmptyLayout_new(layout)

\* the history after the bump allocator returns the block `res` for `layout`
\* (the history is kept when the storage under study is the bump allocator, and
\* for the single caller of a free list over it)
Issue(res, layout) ==
    IF kind \in BumpKinds \cup {"freelist"}
    THEN Append(issued, [handle |-> res.handle, size |-> res.size, layout |-> layout])
    ELSE issued

\* the history after an allocation request `a` (a result of Storage_allocate)
IssuedAfter(layout, a) ==
    IF a.nonempty /\ a.res.ok THEN Issue(a.res, layout) ELSE issued

\* BumpStorage::remaining_space
remaining_space == offset

\* Storage::allocate on a BumpStorage (exclusive)
BumpAllocate(layout) ==
    /\ kind \in BumpKinds
    /\ AllIdle
    /\ LET a == Storage_allocate(offset, layout)
       IN  /\ offset' = a.offset
           /\ issued' = IssuedAfter(layout, a)
           /\ live' = IF a.res.ok /\ a.nonempty THEN Take(Block(a.res.handle, layout)) ELSE live
           /\ last' = Last("allocate", None, layout, layout, a.res, a.nonempty, 0, offset)
    /\ UNCHANGED <<kind, pad, single, rc, glob, affix, mem, pick, count, pc, call, prev>>
    /\ UNCHANGED flVars

\* Storage::deallocate on a BumpStorage (exclusive): deallocate_nonempty is empty
BumpDeallocate(b) ==
    /\ kind \in BumpKinds
    /\ AllIdle
    /\ b \in Held \cup ZeroBlocks
    /\ live' = Give(b)
    /\ last' = Last("deallocate", b.handle, b.layout, b.layout, Ok(b.handle, 0),
                    Storage_deallocate(b.layout), 0, offset)
    /\ UNCHANGED <<kind, pad, single, rc, glob, affix, mem, pick, count, offset, issued, pc, call, prev>>
    /\ UNCHANGED flVars

ResizeOps == {"grow", "grow_zeroed", "shrink"}

\* what the caller of grow / shrink must guarantee about the new layout
ResizeContract(op, old, new) ==
    IF op = "shrink" THEN new.size <= old.size ELSE new.size >= old.size

\* the bytes defaults::grow, grow_zeroed and shrink copy into the new block
defaults_copied(op, old, memory_block) ==
    IF op = "shrink" THEN memory_block.size ELSE old.size

\* ResizableStorage::grow / grow_zeroed / shrink on a BumpStorage (exclusive)
BumpResize(op, b, new) ==
    /\ kind \in BumpKinds
    /\ AllIdle
    /\ b \in Held \cup ZeroBlocks
    /\ ResizeContract(op, b.layout, new)
    /\ IF same_layout(b.layout, new)
       THEN /\ last' = Last(op, b.handle, b.layout, new, Ok(b.handle, b.layout.size),
                            FALSE, 0, offset)
            /\ UNCHANGED <<offset, issued, live>>
       ELSE LET a == Storage_allocate(offset, new)
            IN  /\ offset' = a.offset
                /\ issued' = IssuedAfter(new, a)
                /\ live' = IF a.res.ok
                           THEN Give(b) (+)
                                (IF a.nonempty THEN SetToBag({Block(a.res.handle, new)})
                                 ELSE EmptyBag)
                           ELSE live
                /\ last' = Last(op, b.handle, b.layout, new, a.res, a.nonempty,
                                IF a.res.ok THEN defaults_copied(op, b.layout, a.res) ELSE 0,
                                offset)
    /\ UNCHANGED <<kind, pad, single, rc, glob, affix, mem, pick, count, pc, call, prev>>
    /\ UNCHANGED flVars

----------------------------------------------------------------------------
(* BumpStorage through &self: each thread is inside at most one call *)

\* the locals of a shared call: the free list's bucket index, the status bits
\* read by fetch_or, was_blocked, the backoff step, shared_shallow_flush's
\* current_flags and completed, and the counting wrapper's memory_block and
\* current_offset
NoLoc ==
    [i |-> 0, status |-> 0, was_blocked |-> FALSE, step |-> 0, cf |-> 0, completed |-> TRUE,
     memory_block |-> Err, current_offset |-> 0]

SharedResizeOps == {"shared_grow", "shared_grow_zeroed", "shared_shrink"}

\* shared_allocate_nonempty returns to thread t with result res: to the caller,
\* or to CountingBumpStorage::shared_allocate_nonempty, which goes on to count it
BumpReturn(t, res, nonempty) ==
    LET c == call[t]
        resize == c.op \in SharedResizeOps
    IN  IF kind \in CountingKinds \cup CountingSharedKinds /\ res.ok
        THEN /\ pc' = [pc EXCEPT ![t] = "c_add"]
             /\ loc' = [loc EXCEPT ![t] = [@ EXCEPT !.memory_block = res]]
             /\ prev' = [prev EXCEPT ![t] = 0]
             /\ UNCHANGED <<call, live, last>>
        ELSE /\ pc' = [pc EXCEPT ![t] = "idle"]
             /\ call' = [call EXCEPT ![t] = NoCall]
             /\ prev' = [prev EXCEPT ![t] = 0]
             /\ loc' = [loc EXCEPT ![t] = NoLoc]
             /\ live' = IF res.ok THEN Take(Block(res.handle, c.new))
                        ELSE IF resize /\ NonEmptyLayout_new(c.old)
                        THEN Take(Block(c.handle, c.old))
                        ELSE live
             /\ last' = Last(c.op, c.handle, c.old, c.new, res, nonempty,
                             IF resize /\ res.ok
                             THEN defaults_copied(IF c.op = "shared_shrink" THEN "shrink"
                                                  ELSE "grow", c.old, res)
                             ELSE 0,
                             offset)

\* a thread calls shared_allocate(layout), on the bump allocator or on the
\* counting wrapper, whose shared_allocate_nonempty begins with the bump's
BumpSharedAllocate(t, layout) ==
    /\ kind \in BumpKinds \cup CountingKinds \cup CountingSharedKinds
    /\ MayCall(t)
    /\ IF ~NonEmptyLayout_new(layout)
       THEN /\ last' = Last("shared_allocate", None, layout, layout,
                            Ok(BumpHandle_dangling(layout.align), 0), FALSE, 0, offset)
            /\ UNCHANGED <<pc, call, live>>
       ELSE IF MAX_ALIGN_POW2 < layout.align
       THEN /\ last' = Last("shared_allocate", None, layout, layout, AllocErr_new(layout), TRUE,
                            0, offset)
            /\ UNCHANGED <<pc, call, live>>
       ELSE /\ pc' = [pc EXCEPT ![t] = "load"]
            /\ call' = [call EXCEPT ![t] = Call("shared_allocate", None, layout, layout)]
            /\ last' = NoLast
            /\ UNCHANGED live
    /\ UNCHANGED <<kind, pad, single, rc, glob, affix, mem, pick, count, offset, issued, prev>>
    /\ UNCHANGED flVars

\* a thread calls shared_deallocate(handle, layout): shared_deallocate_nonempty is empty
BumpSharedDeallocate(t, b) ==
    /\ kind \in BumpKinds
    /\ MayCall(t)
    /\ b \in Held \cup ZeroBlocks
    /\ live' = Give(b)
    /\ last' = Last("shared_deallocate", b.handle, b.layout, b.layout, Ok(b.handle, 0),
                    Storage_deallocate(b.layout), 0, offset)
    /\ UNCHANGED <<kind, pad, single, rc, glob, affix, mem, pick, count, offset, issued, pc, call, prev>>
    /\ UNCHANGED flVars

\* the single caller calls shared_grow / shared_grow_zeroed / shared_shrink
BumpSharedResize(t, op, b, new) ==
    /\ kind \in BumpKinds
    /\ SingleCaller
    /\ MayCall(t)
    /\ b \in Held \cup ZeroBlocks
    /\ ResizeContract(IF op = "shared_shrink" THEN "shrink" ELSE "grow", b.layout, new)
    /\ IF same_layout(b.layout, new)
       THEN /\ last' = Last(op, b.handle, b.layout, new, Ok(b.handle, b.layout.size),
                            FALSE, 0, offset)
            /\ UNCHANGED <<pc, call, live>>
       ELSE IF ~NonEmptyLayout_new(new)
       THEN /\ live' = Give(b)
            /\ last' = Last(op, b.handle, b.layout, new, Ok(BumpHandle_dangling(new.align), 0),
                            FALSE, 0, offset)
            /\ UNCHANGED <<pc, call>>
       ELSE IF MAX_ALIGN_POW2 < new.align
       THEN /\ last' = Last(op, b.handle, b.layout, new, AllocErr_new(new), TRUE, 0, offset)
            /\ UNCHANGED <<pc, call, live>>
       ELSE /\ pc' = [pc EXCEPT ![t] = "load"]
            /\ call' = [call EXCEPT ![t] = Call(op, b.handle, b.layout, new)]
            /\ live' = Give(b)
            /\ last' = NoLast
    /\ UNCHANGED <<kind, pad, single, rc, glob, affix, mem, pick, count, offset, issued, prev>>
    /\ UNCHANGED flVars

\* fetch_update's first read of the offset
BumpSharedLoad(t) ==
    /\ pc[t] = "load"
    /\ IF fetch_update_closure(offset, call[t].new) = None
       THEN BumpReturn(t, AllocErr_new(call[t].new), TRUE)
       ELSE /\ pc' = [pc EXCEPT ![t] = "cas"]
            /\ prev' = [prev EXCEPT ![t] = offset]
            /\ UNCHANGED <<call, live, last, loc>>
    /\ UNCHANGED <<kind, pad, single, rc, glob, affix, mem, pick, count, offset, issued, max_length, bitflags, free_list, oob, inner>>

\* fetch_update's compare-exchange: on failure the closure runs again on the
\* value the exchange read
BumpSharedCas(t) ==
    /\ pc[t] = "cas"
    /\ IF compare_exchange_succeeds(offset, prev[t])
       THEN LET start == prev[t]
                end == fetch_update_closure(prev[t], call[t].new)
                res == Ok(end, wrapping_sub(start, end))
            IN  /\ offset' = end
                /\ issued' = Issue(res, call[t].new)
                /\ BumpReturn(t, res, TRUE)
       ELSE /\ IF fetch_update_closure(offset, call[t].new) = None
               THEN BumpReturn(t, AllocErr_new(call[t].new), TRUE)
               ELSE /\ prev' = [prev EXCEPT ![t] = offset]
                    /\ UNCHANGED <<pc, call, live, last, loc>>
            /\ UNCHANGED <<offset, issued>>
    /\ UNCHANGED <<kind, pad, single, rc, glob, affix, mem, pick, count, max_length, bitflags, free_list, oob, inner>>

----------------------------------------------------------------------------
(* FreeListStorage over a BumpStorage: the bitmap and the slot records *)

SINGLE_LOCK == 128
SINGLE_STATUS == 1
MASK_STATUS == 127

\* free_list_layout: the number of bitmap bytes for max_size slots
bitflags_len(max_size) == (max_size \div 7) + (IF max_size % 7 # 0 THEN 1 ELSE 0)

\* (byte & (SINGLE_STATUS << j)) != 0; j = 7 is the lock bit
test_bit(byte, j) == (byte \div (SINGLE_STATUS * Pow2(j))) % 2 = 1

\* byte | (SINGLE_STATUS << j)
set_bit(byte, j) == IF test_bit(byte, j) THEN byte ELSE byte + SINGLE_STATUS * Pow2(j)

\* byte & !(SINGLE_STATUS << j)
clear_bit(byte, j) == IF test_bit(byte, j) THEN byte - SINGLE_STATUS * Pow2(j) ELSE byte

\* a test of the lock bit that never sees it set
never_locked(byte) == FALSE

\* (byte & SINGLE_LOCK) != 0
is_locked(byte) == byte \div SINGLE_LOCK = 1

FreeListItem(layout, handle) == [layout |-> layout, handle |-> handle]

\* the record try_new writes into every slot
EmptyItem == FreeListItem(Layout(0, 1), BumpHandle_dangling(1))

\* a test that wants the stored size to be the requested size
layout_equal(item_layout, layout) ==
    item_layout.align = layout.align /\ item_layout.size = layout.size

\* the test attempt_allocate makes on a slot's stored layout
layout_fits(item_layout, layout) ==
    item_layout.align = layout.align /\ item_layout.size >= layout.size

\* what memory outside the slot array may hold when it is read as a slot record
WildItems ==
    {FreeListItem(l, h) : l \in {x \in FreeListLayouts : x.size # 0},
                          h \in 0 .. Space - 1}

\* free_list.get_unchecked(index): the records a read of slot `index` may yield.
\* The slot array has max_length records; an index past it is outside the array.
get_unchecked(fl, index) ==
    IF index < max_length THEN {fl[index + 1]} ELSE WildItems

\* the bitmap after slot record number max_length is written: that record starts
\* where the bitmap starts, so the first bitmap byte receives the low byte of the
\* record's first field (which field that is, and the byte order, are the
\* build's choice) and the other bitmap bytes receive zero bytes
clobbered_bitflags(bf, item) ==
    {[n \in 1 .. Len(bf) |-> IF n = 1 THEN v ELSE 0] :
        v \in {item.layout.size % 256, item.layout.align % 256, item.handle % 256, 0}}

\* the inner loop of attempt_allocate and attempt_shared_allocate over the status
\* bits `status` of bucket i, from bit j on: the set of possible outcomes
RECURSIVE scan_allocate(_, _, _, _, _, _)
scan_allocate(fl, status, i, layout, j, o) ==
    IF j = 7 THEN {[found |-> FALSE, handle |-> None, index |-> None, j |-> 7, oob |-> o]}
    ELSE IF ~test_bit(status, j) THEN scan_allocate(fl, status, i, layout, j + 1, o)
    ELSE LET index == i * 7 + j
         IN  UNION {IF layout_fits(item.layout, layout)
                    THEN {[found |-> TRUE, handle |-> item.handle, index |-> index, j |-> j,
                           oob |-> o \/ index >= max_length]}
                    ELSE scan_allocate(fl, status, i, layout, j + 1,
                                       o \/ index >= max_length) :
                    item \in get_unchecked(fl, index)}

NotFound(bf, o) ==
    [found |-> FALSE, handle |-> None, index |-> None, bitflags |-> bf, oob |-> o]

\* attempt_allocate from bucket i on: the set of possible outcomes, each with the
\* bitmap it leaves
RECURSIVE attempt_allocate_from(_, _, _, _, _)
attempt_allocate_from(fl, bf, layout, i, o) ==
    IF i = Len(bf) THEN {NotFound(bf, o)}
    ELSE LET owned == bf[i + 1]
         IN  IF owned = 0 THEN attempt_allocate_from(fl, bf, layout, i + 1, o)
             ELSE UNION {IF r.found
                         THEN {[found |-> TRUE, handle |-> r.handle, index |-> r.index,
                                bitflags |-> [bf EXCEPT ![i + 1] = clear_bit(owned, r.j)],
                                oob |-> r.oob]}
                         ELSE attempt_allocate_from(fl, bf, layout, i + 1, r.oob) :
                         r \in scan_allocate(fl, owned, i, layout, 0, o)}

attempt_allocate(fl, bf, layout) == attempt_allocate_from(fl, bf, layout, 0, FALSE)

\* the lowest element of a non-empty set of numbers
Lowest(S) == CHOOSE k \in S : \A m \in S : k <= m

\* attempt_deallocate: the set of possible outcomes, each with the bitmap and the
\* slot records it leaves
attempt_deallocate(fl, bf, handle, layout) ==
    LET free == {k \in 0 .. 7 * Len(bf) - 1 :
                    bf[(k \div 7) + 1] # MASK_STATUS /\ ~test_bit(bf[(k \div 7) + 1], k % 7)}
        item == FreeListItem(layout, handle)
    IN  IF free = {}
        THEN {[pooled |-> FALSE, index |-> None, bitflags |-> bf, free_list |-> fl,
               oob |-> FALSE]}
        ELSE LET k == Lowest(free)
                 marked == [bf EXCEPT ![(k \div 7) + 1] = set_bit(@, k % 7)]
             IN  IF k < max_length
                 THEN {[pooled |-> TRUE, index |-> k, bitflags |-> marked,
                        free_list |-> [fl EXCEPT ![k + 1] = item], oob |-> FALSE]}
                 ELSE {[pooled |-> TRUE, index |-> k, bitflags |-> b, free_list |-> fl,
                        oob |-> TRUE] :
                        b \in IF k = max_length THEN clobbered_bitflags(marked, item)
                              ELSE {marked}}

\* the history after a scan that did (r = TRUE) or did not read outside the array
OutOfBounds(r) == IF r THEN "read" ELSE oob

\* what was read outside the slot array has reached a caller or the backend: the
\* behaviour is followed no further
Halted == oob = "read"

\* the status bits set in the bitmap, as slot indices
FilledBits == {k \in 0 .. 7 * Len(bitflags) - 1 : test_bit(bitflags[(k \div 7) + 1], k % 7)}

NoBlock == Block(None, Layout(0, 1))

NoInner == [slot |-> None, calls |-> << >>, after |-> NoBlock]

\* the record of what a completed call did inside (kept for the single caller):
\* the slot it used, its calls to the underlying storage, and the block that the
\* call completed just before it pooled or passed on, when that call was a
\* deallocate that reached deallocate_nonempty
Inner(slot, calls) ==
    IF SingleCaller
    THEN [slot |-> slot, calls |-> calls,
          after |-> IF last.op = "deallocate" /\ last.nonempty
                    THEN Block(last.arg, last.old) ELSE NoBlock]
    ELSE NoInner

StorageCall(op, handle, layout) == [op |-> op, handle |-> handle, layout |-> layout]

\* Storage::allocate on a FreeListStorage (exclusive; the single caller's)
FreeListAllocate(layout) ==
    /\ ~Halted
    /\ kind \in FreeListKinds
    /\ SingleCaller
    /\ AllIdle
    /\ IF ~NonEmptyLayout_new(layout)
       THEN /\ last' = Last("allocate", None, layout, layout,
                            Ok(BumpHandle_dangling(layout.align), 0), FALSE, 0, offset)
            /\ inner' = NoInner
            /\ UNCHANGED <<offset, issued, live, bitflags, oob>>
       ELSE \E r \in attempt_allocate(free_list, bitflags, layout) :
              /\ bitflags' = r.bitflags
              /\ oob' = OutOfBounds(r.oob)
              /\ IF r.found
                 THEN /\ live' = Take(Block(r.handle, layout))
                      /\ last' = Last("allocate", None, layout, layout,
                                      Ok(r.handle, layout.size), TRUE, 0, offset)
                      /\ inner' = Inner(r.index, << >>)
                      /\ UNCHANGED <<offset, issued>>
                 ELSE LET a == Storage_allocate(offset, layout)
                      IN  /\ offset' = a.offset
                          /\ issued' = IssuedAfter(layout, a)
                          /\ live' = IF a.res.ok THEN Take(Block(a.res.handle, layout))
                                     ELSE live
                          /\ last' = Last("allocate", None, layout, layout, a.res, TRUE, 0,
                                          offset)
                          /\ inner' = Inner(None,
                                            <<StorageCall("allocate_nonempty", None, layout)>>)
    /\ UNCHANGED <<kind, pad, single, rc, glob, affix, mem, pick, count, pc, call, prev, max_length, free_list, loc>>

\* Storage::deallocate on a FreeListStorage (exclusive; the single caller's)
FreeListDeallocate(b) ==
    /\ ~Halted
    /\ kind \in FreeListKinds
    /\ SingleCaller
    /\ AllIdle
    /\ b \in Held \cup ZeroBlocks
    /\ live' = Give(b)
    /\ last' = Last("deallocate", b.handle, b.layout, b.layout, Ok(b.handle, 0),
                    Storage_deallocate(b.layout), 0, offset)
    /\ IF ~NonEmptyLayout_new(b.layout)
       THEN /\ inner' = NoInner
            /\ UNCHANGED <<bitflags, free_list, oob>>
       ELSE \E r \in attempt_deallocate(free_list, bitflags, b.handle, b.layout) :
              /\ bitflags' = r.bitflags
              /\ free_list' = r.free_list
              /\ oob' = IF r.oob THEN "written" ELSE oob
              /\ inner' = IF r.pooled THEN Inner(r.index, << >>)
                          ELSE Inner(None, <<StorageCall("deallocate_nonempty", b.handle,
                                                          b.layout)>>)
    /\ UNCHANGED <<kind, pad, single, rc, glob, affix, mem, pick, count, offset, issued, pc, call, prev, max_length, loc>>

----------------------------------------------------------------------------
(* FreeListStorage through &self: each thread is inside at most one call *)

SPIN_LIMIT == 6

\* a backoff that allows one more round than Backoff::spin
spin_once_more(step) == step <= SPIN_LIMIT + 1

\* Backoff::spin: whether it returns true (and then it increments the step)
Backoff_spin(step) == step <= SPIN_LIMIT

\* thread t is between taking the lock bit of bucket i and the store that ends
\* its critical section
InCriticalSection(t, i) == pc[t] \in {"a_cs", "d_cs", "f_cs"} /\ loc[t].i = i

\* where thread t's call reads the next bucket's byte
LoadPc(t) == IF call[t].op = "shared_allocate" THEN "a_load" ELSE "d_load"

\* a shared call of the free list returns to thread t; what try_shared_flush
\* returns stays with the thread as `completed`
FreeListReturn(t, res, slot, calls) ==
    LET c == call[t]
    IN  /\ pc' = [pc EXCEPT ![t] = "idle"]
        /\ call' = [call EXCEPT ![t] = NoCall]
        /\ loc' = [loc EXCEPT ![t] = [NoLoc EXCEPT !.completed =
                                         c.op = "try_shared_flush" => res.ok]]
        /\ live' = IF res.ok /\ c.op = "shared_allocate" THEN Take(Block(res.handle, c.new))
                   ELSE live
        /\ last' = Last(c.op, c.handle, c.old, c.new, res, TRUE, 0, offset)
        /\ inner' = Inner(slot, calls)

\* attempt_shared_allocate / attempt_shared_deallocate returned without success:
\* retry while was_blocked and the backoff allows, else call the backend
FreeListEndOfScan(t, wb) ==
    LET c == call[t]
    IN  IF wb /\ Backoff_spin(loc[t].step)
        THEN /\ loc' = [loc EXCEPT ![t] = [NoLoc EXCEPT !.step = loc[t].step + 1]]
             /\ pc' = [pc EXCEPT ![t] = LoadPc(t)]
             /\ UNCHANGED <<call, live, last, inner>>
        ELSE IF c.op = "shared_deallocate"
        THEN FreeListReturn(t, Ok(c.handle, 0), None,
                            <<StorageCall("shared_deallocate_nonempty", c.handle, c.old)>>)
        ELSE IF MAX_ALIGN_POW2 < c.new.align
        THEN FreeListReturn(t, Err, None,
                            <<StorageCall("shared_allocate_nonempty", None, c.new)>>)
        ELSE /\ pc' = [pc EXCEPT ![t] = "load"]
             /\ loc' = [loc EXCEPT ![t] = NoLoc]
             /\ inner' = Inner(None, <<StorageCall("shared_allocate_nonempty", None, c.new)>>)
             /\ UNCHANGED <<call, live, last>>

\* `continue` in the bucket loop of attempt_shared_allocate / attempt_shared_deallocate
FreeListNextBucket(t, wb) ==
    IF loc[t].i + 1 < Len(bitflags)
    THEN /\ loc' = [loc EXCEPT ![t] = [@ EXCEPT !.i = @ + 1, !.was_blocked = wb, !.status = 0]]
         /\ pc' = [pc EXCEPT ![t] = LoadPc(t)]
         /\ UNCHANGED <<call, live, last, inner>>
    ELSE FreeListEndOfScan(t, wb)

\* a thread calls shared_allocate(layout) on the free list
FreeListSharedAllocate(t, layout) ==
    /\ ~Halted
    /\ SingleCaller \/ layout \in SharedLayouts
    /\ kind \in FreeListKinds
    /\ MayCall(t)
    /\ IF ~NonEmptyLayout_new(layout)
       THEN /\ last' = Last("shared_allocate", None, layout, layout,
                            Ok(BumpHandle_dangling(layout.align), 0), FALSE, 0, offset)
            /\ inner' = NoInner
            /\ UNCHANGED <<pc, call, loc>>
       ELSE /\ pc' = [pc EXCEPT ![t] = "a_load"]
            /\ call' = [call EXCEPT ![t] = Call("shared_allocate", None, layout, layout)]
            /\ loc' = [loc EXCEPT ![t] = [NoLoc EXCEPT !.step = 1]]
            /\ last' = NoLast
            /\ inner' = NoInner
    /\ UNCHANGED <<kind, pad, single, rc, glob, affix, mem, pick, count, offset, issued, live, prev, max_length, bitflags, free_list, oob>>

\* a thread calls shared_deallocate(handle, layout) on the free list
FreeListSharedDeallocate(t, b) ==
    /\ ~Halted
    /\ kind \in FreeListKinds
    /\ MayCall(t)
    /\ b \in Held \cup ZeroBlocks
    /\ live' = Give(b)
    /\ IF ~NonEmptyLayout_new(b.layout)
       THEN /\ last' = Last("shared_deallocate", b.handle, b.layout, b.layout,
                            Ok(b.handle, 0), FALSE, 0, offset)
            /\ inner' = NoInner
            /\ UNCHANGED <<pc, call, loc>>
       ELSE /\ pc' = [pc EXCEPT ![t] = "d_load"]
            /\ call' = [call EXCEPT ![t] = Call("shared_deallocate", b.handle, b.layout,
                                                 b.layout)]
            /\ loc' = [loc EXCEPT ![t] = [NoLoc EXCEPT !.step = 1]]
            /\ last' = NoLast
            /\ inner' = NoInner
    /\ UNCHANGED <<kind, pad, single, rc, glob, affix, mem, pick, count, offset, issued, prev, max_length, bitflags, free_list, oob>>

\* owned.load in attempt_shared_allocate and attempt_shared_deallocate: skip a
\* locked bucket, and a bucket with nothing to take (nowhere to put)
FreeListLoad(t) ==
    /\ ~Halted
    /\ pc[t] \in {"a_load", "d_load"}
    /\ LET fetch == bitflags[loc[t].i + 1]
           skip == IF pc[t] = "a_load" THEN fetch = 0 ELSE fetch = MASK_STATUS
       IN  IF is_locked(fetch) \/ skip
           THEN FreeListNextBucket(t, loc[t].was_blocked \/ is_locked(fetch))
           ELSE /\ pc' = [pc EXCEPT ![t] = IF pc[t] = "a_load" THEN "a_lock" ELSE "d_lock"]
                /\ UNCHANGED <<call, live, last, inner, loc>>
    /\ UNCHANGED <<kind, pad, single, rc, glob, affix, mem, pick, count, offset, issued, prev, max_length, bitflags, free_list, oob>>

\* owned.fetch_or(SINGLE_LOCK): the lock is taken when the bit was clear
FreeListFetchOr(t) ==
    /\ ~Halted
    /\ pc[t] \in {"a_lock", "d_lock"}
    /\ LET locked == bitflags[loc[t].i + 1]
       IN  /\ bitflags' = [bitflags EXCEPT ![loc[t].i + 1] = set_bit(locked, 7)]
           /\ IF is_locked(locked)
              THEN FreeListNextBucket(t, FALSE)
              ELSE /\ pc' = [pc EXCEPT ![t] = IF pc[t] = "a_lock" THEN "a_cs" ELSE "d_cs"]
                   /\ loc' = [loc EXCEPT ![t] = [@ EXCEPT !.status = locked]]
                   /\ UNCHANGED <<call, live, last, inner>>
    /\ UNCHANGED <<kind, pad, single, rc, glob, affix, mem, pick, count, offset, issued, prev, max_length, free_list, oob>>

\* the critical section of attempt_shared_allocate: the scan of the status bits
\* read by fetch_or, and the store that ends it
FreeListAllocScan(t) ==
    /\ ~Halted
    /\ pc[t] = "a_cs"
    /\ LET i == loc[t].i
           status == loc[t].status
       IN  \E r \in scan_allocate(free_list, status, i, call[t].new, 0, FALSE) :
             /\ oob' = OutOfBounds(r.oob)
             /\ IF r.found
                THEN /\ bitflags' = [bitflags EXCEPT ![i + 1] = clear_bit(status, r.j)]
                     /\ FreeListReturn(t, Ok(r.handle, call[t].new.size), r.index, << >>)
                ELSE /\ bitflags' = [bitflags EXCEPT ![i + 1] = status]
                     /\ FreeListNextBucket(t, loc[t].was_blocked)
    /\ UNCHANGED <<kind, pad, single, rc, glob, affix, mem, pick, count, offset, issued, prev, max_length, free_list>>

\* the critical section of attempt_shared_deallocate
FreeListDeallocScan(t) ==
    /\ ~Halted
    /\ pc[t] = "d_cs"
    /\ LET i == loc[t].i
           status == loc[t].status
           free == {j \in 0 .. 6 : ~test_bit(status, j)}
           item == FreeListItem(call[t].old, call[t].handle)
       IN  IF free = {}
           THEN /\ bitflags' = [bitflags EXCEPT ![i + 1] = status]
                /\ FreeListNextBucket(t, loc[t].was_blocked)
                /\ UNCHANGED <<free_list, oob>>
           ELSE LET j == Lowest(free)
                    index == i * 7 + j
                IN  /\ IF index < max_length
                       THEN /\ free_list' = [free_list EXCEPT ![index + 1] = item]
                            /\ bitflags' = [bitflags EXCEPT ![i + 1] = set_bit(status, j)]
                            /\ UNCHANGED oob
                       ELSE /\ oob' = "written"
                            /\ \E b \in IF index = max_length
                                        THEN clobbered_bitflags(bitflags, item)
                                        ELSE {bitflags} :
                                  bitflags' = [b EXCEPT ![i + 1] = set_bit(status, j)]
                            /\ UNCHANGED free_list
                    /\ FreeListReturn(t, Ok(call[t].handle, 0), index, << >>)
    /\ UNCHANGED <<kind, pad, single, rc, glob, affix, mem, pick, count, offset, issued, prev, max_length>>

----------------------------------------------------------------------------
(* FreeListStorage: try_shared_flush and shared_flush *)

\* the records shared_shallow_flush pushes for the status bits of current_flags
\* from bit j on: the set of possible outcomes
RECURSIVE flush_reads(_, _, _, _)
flush_reads(fl, cf, i, j) ==
    IF j = 7 THEN {[items |-> << >>, oob |-> FALSE]}
    ELSE IF ~test_bit(cf, j) THEN flush_reads(fl, cf, i, j + 1)
    ELSE {[items |-> <<item>> \o r.items, oob |-> r.oob \/ i * 7 + j >= max_length] :
            item \in get_unchecked(fl, i * 7 + j), r \in flush_reads(fl, cf, i, j + 1)}

\* the calls to the backend's shared_deallocate_nonempty that empty the vector
\* (try_pop takes the last pushed first)
flush_calls(items) ==
    [n \in 1 .. Len(items) |->
        StorageCall("shared_deallocate_nonempty", items[Len(items) + 1 - n].handle,
                    items[Len(items) + 1 - n].layout)]

\* `continue 'main_loop`, and the return after the last bucket: try_shared_flush
\* returns completed && self.storage.try_shared_flush(), the barrier's being true
FreeListFlushNext(t, completed, calls) ==
    IF loc[t].i + 1 < Len(bitflags)
    THEN /\ loc' = [loc EXCEPT ![t] = [@ EXCEPT !.i = @ + 1, !.completed = completed, !.cf = 0]]
         /\ pc' = [pc EXCEPT ![t] = "f_load"]
         /\ inner' = Inner(None, calls)
         /\ UNCHANGED <<call, live, last>>
    ELSE FreeListReturn(t, [ok |-> completed \/ call[t].op = "shared_flush",
                            handle |-> None, size |-> 0], None, calls)

\* the top of the inner loop of shared_shallow_flush with current_flags = cf
FreeListFlushLoopTop(t, cf) ==
    IF cf % SINGLE_LOCK = 0
    THEN FreeListFlushNext(t, loc[t].completed, inner.calls)
    ELSE IF is_locked(cf) /\ call[t].op # "shared_flush"
    THEN FreeListFlushNext(t, FALSE, inner.calls)
    ELSE /\ pc' = [pc EXCEPT ![t] = IF is_locked(cf) THEN "f_reload" ELSE "f_cas"]
         /\ loc' = [loc EXCEPT ![t] = [@ EXCEPT !.cf = cf]]
         /\ UNCHANGED <<call, live, last, inner>>

\* a thread calls try_shared_flush (force_retry = FALSE) or shared_flush (TRUE)
FreeListSharedFlush(t, force_retry) ==
    /\ ~Halted
    /\ kind \in FreeListKinds
    /\ MayCall(t)
    /\ pc' = [pc EXCEPT ![t] = "f_load"]
    /\ call' = [call EXCEPT ![t] = Call(IF force_retry THEN "shared_flush"
                                         ELSE "try_shared_flush",
                                         None, Layout(0, 1), Layout(0, 1))]
    /\ loc' = [loc EXCEPT ![t] = NoLoc]
    /\ last' = NoLast
    /\ inner' = NoInner
    /\ UNCHANGED <<kind, pad, single, rc, glob, affix, mem, pick, count, offset, issued, live, prev, max_length, bitflags, free_list, oob>>

\* flags.load at the start of a bucket
FreeListFlushLoad(t) ==
    /\ ~Halted
    /\ pc[t] = "f_load"
    /\ FreeListFlushLoopTop(t, bitflags[loc[t].i + 1])
    /\ UNCHANGED <<kind, pad, single, rc, glob, affix, mem, pick, count, offset, issued, prev, max_length, bitflags, free_list, oob>>

\* force_retry: the bucket was locked, current_flags is loaded again, and the
\* code goes on to the compare-exchange
FreeListFlushReload(t) ==
    /\ ~Halted
    /\ pc[t] = "f_reload"
    /\ pc' = [pc EXCEPT ![t] = "f_cas"]
    /\ loc' = [loc EXCEPT ![t] = [@ EXCEPT !.cf = bitflags[loc[t].i + 1]]]
    /\ UNCHANGED <<kind, pad, single, rc, glob, affix, mem, pick, count, offset, issued, live, call, prev, last, max_length, bitflags,
                   free_list, oob, inner>>

\* flags.compare_exchange(current_flags, SINGLE_LOCK)
FreeListFlushCas(t) ==
    /\ ~Halted
    /\ pc[t] = "f_cas"
    /\ LET i == loc[t].i
       IN  IF compare_exchange_succeeds(bitflags[i + 1], loc[t].cf)
           THEN /\ bitflags' = [bitflags EXCEPT ![i + 1] = SINGLE_LOCK]
                /\ pc' = [pc EXCEPT ![t] = "f_cs"]
                /\ UNCHANGED <<call, live, last, inner, loc>>
           ELSE /\ FreeListFlushLoopTop(t, bitflags[i + 1])
                /\ UNCHANGED bitflags
    /\ UNCHANGED <<kind, pad, single, rc, glob, affix, mem, pick, count, offset, issued, prev, max_length, free_list, oob>>

\* the critical section of shared_shallow_flush: the records of the filled slots
\* are read, flags.store(0) ends it, and the records go to the backend
FreeListFlushScan(t) ==
    /\ ~Halted
    /\ pc[t] = "f_cs"
    /\ LET i == loc[t].i
       IN  \E r \in flush_reads(free_list, loc[t].cf, i, 0) :
             /\ oob' = OutOfBounds(r.oob)
             /\ bitflags' = [bitflags EXCEPT ![i + 1] = 0]
             /\ FreeListFlushNext(t, loc[t].completed, inner.calls \o flush_calls(r.items))
    /\ UNCHANGED <<kind, pad, single, rc, glob, affix, mem, pick, count, offset, issued, prev, max_length, free_list>>

----------------------------------------------------------------------------
(* FreeListStorage: try_flush and flush through &mut self *)

FlushOps == {"try_flush", "flush"}

\* the calls to the backend's deallocate_nonempty that empty the vector of
\* shallow_flush (try_pop takes the last pushed first)
shallow_flush_calls(items) ==
    [n \in 1 .. Len(items) |->
        StorageCall("deallocate_nonempty", items[Len(items) + 1 - n].handle,
                    items[Len(items) + 1 - n].layout)]

\* shallow_flush from bucket i on: the set of possible outcomes, each with the
\* calls it makes to the backend
RECURSIVE shallow_flush_from(_, _, _)
shallow_flush_from(fl, bf, i) ==
    IF i = Len(bf) THEN {[calls |-> << >>, oob |-> FALSE]}
    ELSE IF bf[i + 1] = 0 THEN shallow_flush_from(fl, bf, i + 1)
    ELSE {[calls |-> shallow_flush_calls(r.items) \o n.calls, oob |-> r.oob \/ n.oob] :
            r \in flush_reads(fl, bf[i + 1], i, 0), n \in shallow_flush_from(fl, bf, i + 1)}

shallow_flush(fl, bf) == shallow_flush_from(fl, bf, 0)

\* Flush::try_flush and Flush::flush on a FreeListStorage (exclusive; the single
\* caller's): shallow_flush, then the backend's try_flush (true) or flush
FreeListFlush(op) ==
    /\ ~Halted
    /\ kind \in FreeListKinds
    /\ SingleCaller
    /\ AllIdle
    /\ \E r \in shallow_flush(free_list, bitflags) :
          /\ bitflags' = [n \in 1 .. Len(bitflags) |-> 0]
          /\ oob' = OutOfBounds(r.oob)
          /\ inner' = Inner(None, r.calls)
    /\ last' = Last(op, None, Layout(0, 1), Layout(0, 1),
                    [ok |-> TRUE, handle |-> None, size |-> 0], FALSE, 0, offset)
    /\ UNCHANGED <<kind, pad, single, rc, glob, affix, mem, pick, count, offset, issued, live, pc, call, prev, max_length, free_list, loc>>

----------------------------------------------------------------------------
(* CountingBumpStorage: a BumpStorage and the count of its blocks *)

\* CountingBumpStorage.max_offset: the offset of the new bump allocator
max_offset == Space

\* BumpStorage::reset(offset): the bump offset is set back to the given value
BumpStorage_reset(to) == to

\* BumpStorage::shared_reset_if_eq(current, to): the bump offset is set back to
\* the given value if it still is `current`
BumpStorage_shared_reset_if_eq(off, current, to) ==
    IF compare_exchange_succeeds(off, current) THEN to ELSE off

\* Storage::allocate on a CountingBumpStorage (exclusive)
CountingAllocate(layout) ==
    /\ kind \in CountingKinds
    /\ AllIdle
    /\ LET a == Storage_allocate(offset, layout)
           counted == a.nonempty /\ a.res.ok
       IN  /\ offset' = a.offset
           /\ count' = IF counted THEN count + 1 ELSE count
           /\ live' = IF counted THEN Take(Block(a.res.handle, layout)) ELSE live
           /\ last' = Last("allocate", None, layout, layout, a.res, a.nonempty, 0, offset)
    /\ UNCHANGED <<kind, pad, single, rc, glob, affix, mem, pick, issued, pc, call, prev>>
    /\ UNCHANGED flVars

\* Storage::deallocate on a CountingBumpStorage (exclusive)
CountingDeallocate(b) ==
    /\ kind \in CountingKinds
    /\ AllIdle
    /\ b \in Held \cup ZeroBlocks
    /\ IF Storage_deallocate(b.layout)
       THEN /\ count' = count - 1
            /\ offset' = IF count' = 0 THEN BumpStorage_reset(max_offset) ELSE offset
       ELSE UNCHANGED <<count, offset>>
    /\ live' = Give(b)
    /\ last' = Last("deallocate", b.handle, b.layout, b.layout, Ok(b.handle, 0),
                    Storage_deallocate(b.layout), 0, offset)
    /\ UNCHANGED <<kind, pad, single, rc, glob, affix, mem, pick, issued, pc, call, prev>>
    /\ UNCHANGED flVars

\* shared_allocate_nonempty after the bump allocator returned a block: fetch_add
CountingFetchAdd(t) ==
    /\ pc[t] = "c_add"
    /\ count' = wrapping_add(count, 1)
    /\ pc' = [pc EXCEPT ![t] = "idle"]
    /\ call' = [call EXCEPT ![t] = NoCall]
    /\ loc' = [loc EXCEPT ![t] = NoLoc]
    /\ live' = Take(Block(loc[t].memory_block.handle, call[t].new))
    /\ last' = Last("shared_allocate", None, call[t].new, call[t].new, loc[t].memory_block,
                    TRUE, 0, offset)
    /\ UNCHANGED <<kind, pad, single, rc, glob, affix, mem, pick, offset, issued, prev, max_length, bitflags, free_list, oob, inner>>

\* a thread calls shared_deallocate(handle, layout): shared_deallocate_nonempty
\* starts by reading the bump offset
CountingSharedDeallocate(t, b) ==
    /\ kind \in CountingKinds \cup CountingSharedKinds
    /\ MayCall(t)
    /\ b \in Held \cup ZeroBlocks
    /\ live' = Give(b)
    /\ IF Storage_deallocate(b.layout)
       THEN /\ pc' = [pc EXCEPT ![t] = "c_sub"]
            /\ call' = [call EXCEPT ![t] = Call("shared_deallocate", b.handle, b.layout, b.layout)]
            /\ loc' = [loc EXCEPT ![t] = [NoLoc EXCEPT !.current_offset = offset]]
            /\ last' = NoLast
       ELSE /\ last' = Last("shared_deallocate", b.handle, b.layout, b.layout, Ok(b.handle, 0),
                            FALSE, 0, offset)
            /\ UNCHANGED <<pc, call, loc>>
    /\ UNCHANGED <<kind, pad, single, rc, glob, affix, mem, pick, count, offset, issued, prev, max_length, bitflags, free_list, oob, inner>>

\* shared_deallocate_nonempty returns to thread t
CountingReturn(t) ==
    /\ pc' = [pc EXCEPT ![t] = "idle"]
    /\ call' = [call EXCEPT ![t] = NoCall]
    /\ loc' = [loc EXCEPT ![t] = NoLoc]
    /\ last' = Last("shared_deallocate", call[t].handle, call[t].old, call[t].old,
                    Ok(call[t].handle, 0), TRUE, 0, offset)

\* shared_deallocate_nonempty's fetch_sub: the thread that takes the count
\* from 1 to 0 goes on to reset the offset
CountingFetchSub(t) ==
    /\ pc[t] = "c_sub"
    /\ count' = wrapping_sub(count, 1)
    /\ IF count = 1
       THEN /\ pc' = [pc EXCEPT ![t] = "c_reset"]
            /\ UNCHANGED <<call, loc, last>>
       ELSE CountingReturn(t)
    /\ UNCHANGED <<kind, pad, single, rc, glob, affix, mem, pick, offset, issued, live, prev, max_length, bitflags, free_list, oob, inner>>

\* shared_deallocate_nonempty's shared_reset_if_eq(current_offset, max_offset)
CountingResetIfEq(t) ==
    /\ pc[t] = "c_reset"
    /\ offset' = BumpStorage_shared_reset_if_eq(offset, loc[t].current_offset, max_offset)
    /\ CountingReturn(t)
    /\ UNCHANGED <<kind, pad, single, rc, glob, affix, mem, pick, count, issued, live, prev, max_length, bitflags, free_list, oob, inner>>

----------------------------------------------------------------------------
(* AffixStorage over a BumpStorage: a prefix and a suffix around each block *)

ISIZE_MAX == Pow2(UsizeBits - 1) - 1

\* the prefixes (of non-zero size) and the suffixes of the scenarios
Prefixes == {Layout(1, 1), Layout(2, 2)}

Suffixes == {Layout(0, 1), Layout(1, 1)}

NoAffix == [pre |-> Layout(0, 1), suf |-> Layout(0, 1)]

\* the layouts the callers of the AffixStorage ask for
AffixLayouts == {Layout(0, 1), Layout(1, 1), Layout(2, 2)}

NO_AFFIX == affix.pre = Layout(0, 1) /\ affix.suf = Layout(0, 1)

\* no layout: a size did not fit
NoSurround == [ok |-> FALSE, layout |-> Layout(0, 1), prefix |-> 0, suffix |-> 0]

\* AffixStorage::surround: Pre extended by the layout, extended by Suf; the
\* layout of the whole, the offset of the payload and the offset of the suffix
surround(layout) ==
    LET max(a, b) == IF a >= b THEN a ELSE b
        round_up(n, align) == ((n + align - 1) \div align) * align
        extend(l, next) ==
            LET off == round_up(l.size, next.align)
                size == off + next.size
                align == max(l.align, next.align)
            IN  [ok |-> round_up(size, align) <= ISIZE_MAX,
                 layout |-> Layout(size, align), offset |-> off]
        first == extend(affix.pre, layout)
        second == extend(first.layout, affix.suf)
    IN  IF first.ok /\ second.ok
        THEN [ok |-> TRUE, layout |-> second.layout, prefix |-> first.offset,
              suffix |-> second.offset]
        ELSE NoSurround

\* OffsetHandle::offset on a BumpStorage, by `n` and by `-n`
BumpStorage_offset(handle, n) == wrapping_add(handle, n)

\* an offset back that leaves the handle where it is
offset_not_back(handle, n) == handle

BumpStorage_offset_back(handle, n) == wrapping_sub(handle, n)

\* BumpStorage::grow / grow_zeroed / shrink from offset `off`: the block it
\* returns, the new offset and the bytes it copies from the handle it was given
BumpStorage_resize(off, op, handle, old, new) ==
    IF same_layout(old, new)
    THEN [res |-> Ok(handle, old.size), offset |-> off, copied |-> 0]
    ELSE LET a == Storage_allocate(off, new)
         IN  [res |-> a.res, offset |-> a.offset,
              copied |-> IF a.res.ok THEN defaults_copied(op, old, a.res) ELSE 0]

\* what a read outside the memory of the bump allocator may yield
WildBytes == {0, 255}

\* split(ptr, layout): where the prefix and the suffix of the block at ptr start
split(ptr, layout) ==
    LET s == surround(layout)
    IN  [prefix |-> ptr - s.prefix, suffix |-> ptr + (s.suffix - s.prefix)]

\* the addresses of the prefix, of the first `size` bytes of the payload and of
\* the suffix of the block at ptr
PrefixRegion(ptr, layout) ==
    {split(ptr, layout).prefix + i : i \in 0 .. affix.pre.size - 1}

PayloadRegion(ptr, size) == {ptr + i : i \in 0 .. size - 1}

SuffixRegion(ptr, layout) ==
    {split(ptr, layout).suffix + i : i \in 0 .. affix.suf.size - 1}

Regions(ptr, layout) ==
    PrefixRegion(ptr, layout) \cup PayloadRegion(ptr, layout.size) \cup SuffixRegion(ptr, layout)

\* the byte the caller writes at address a of the block at ptr: the prefix, the
\* payload and the suffix get different bytes, and so does each position
KnownByte(ptr, layout, a) ==
    IF a \in PrefixRegion(ptr, layout) THEN 16 + (a - split(ptr, layout).prefix)
    ELSE IF a \in PayloadRegion(ptr, layout.size) THEN 32 + (a - ptr)
    ELSE 48 + (a - split(ptr, layout).suffix)

\* ptr::copy / copy_nonoverlapping of len bytes from src to dst in memory m; a
\* byte read outside the memory is `wild`, a byte written outside it is lost
mem_copy(m, src, dst, len, wild) ==
    [a \in DOMAIN m |-> IF a \in dst .. dst + len - 1
                        THEN IF src + (a - dst) \in DOMAIN m THEN m[src + (a - dst)] ELSE wild
                        ELSE m[a]]

\* ptr::write_bytes(0, len) at dst
mem_zero(m, dst, len) == [a \in DOMAIN m |-> IF a \in dst .. dst + len - 1 THEN 0 ELSE m[a]]

\* the access of len bytes at ptr leaves the memory (where the memory is followed)
outside(m, ptr, len) == DOMAIN m # {} /\ \E a \in ptr .. ptr + len - 1 : a \notin DOMAIN m

\* the memory after AffixStorage::grow / grow_zeroed / shrink of the block at
\* handle, whose inner call returned r: the copy made by defaults::*, the copy of
\* the suffix to its new place, and whether an access left the memory
AffixResize_memory(op, handle, o, n, r, wild) ==
    LET suf == affix.suf.size
        moved == r.res.ok /\ r.copied > 0
        \* shrink moves the suffix before it calls the inner storage
        m0 == IF op = "shrink" /\ suf # 0
              THEN mem_copy(mem, handle + o.suffix, handle + n.suffix, suf, wild)
              ELSE mem
        \* defaults::grow, grow_zeroed and shrink in the inner storage
        m1 == IF ~moved THEN m0
              ELSE mem_copy(IF op = "grow" THEN m0 ELSE mem_zero(m0, r.res.handle, r.res.size),
                            handle, r.res.handle, r.copied, wild)
        \* grow and grow_zeroed move the suffix after the inner call
        m2 == IF r.res.ok /\ op # "shrink" /\ suf # 0
              THEN mem_copy(m1, r.res.handle + o.suffix, r.res.handle + n.suffix, suf, wild)
              ELSE m1
        m3 == IF r.res.ok /\ op = "grow_zeroed" /\ suf # 0
              THEN mem_zero(m2, r.res.handle + o.suffix,
                            IF suf <= n.suffix - o.suffix THEN suf ELSE n.suffix - o.suffix)
              ELSE m2
    IN  [mem |-> IF r.res.ok \/ op = "shrink" THEN m3 ELSE mem,
         oob |-> \/ op = "shrink" /\ suf # 0
                        /\ (outside(mem, handle + o.suffix, suf)
                                \/ outside(mem, handle + n.suffix, suf))
                 \/ moved /\ outside(mem, handle, r.copied)
                 \/ r.res.ok /\ op # "shrink" /\ suf # 0
                        /\ (outside(mem, r.res.handle + o.suffix, suf)
                                \/ outside(mem, r.res.handle + n.suffix, suf))]

\* the payload of block b starts inside the memory of the bump allocator (the
\* callers resize no block whose handle has left it)
InRegion(b) == b.handle <= (IF kind = "affix" THEN AffixSpace ELSE AffixMemSpace)

\* Storage::allocate on an AffixStorage with a prefix
AffixAllocate(layout) ==
    /\ kind \in AffixKinds
    /\ AllIdle
    /\ kind = "affix_mem" => BagCardinality(live) < AffixMemBlocks
    /\ ~NO_AFFIX
    /\ LET s == surround(layout)
       IN  IF ~s.ok
           THEN /\ last' = Last("allocate", None, layout, layout, Err, FALSE, 0, offset)
                /\ inner' = Inner(None, << >>)
                /\ UNCHANGED <<offset, live>>
           ELSE LET r == BumpStorage_allocate_nonempty(offset, s.layout)
                    res == IF r.res.ok
                           THEN Ok(BumpStorage_offset(r.res.handle, s.prefix), s.layout.size)
                           ELSE Err
                IN  /\ offset' = r.offset
                    /\ live' = IF res.ok THEN Take(Block(res.handle, layout)) ELSE live
                    /\ last' = Last("allocate", None, layout, layout, res, TRUE, 0, offset)
                    /\ inner' = Inner(None, <<StorageCall("allocate_nonempty", None, s.layout)>>)
    /\ UNCHANGED <<kind, pad, single, rc, glob, affix, mem, pick, count, issued, pc, call, prev, max_length, bitflags, free_list,
                   oob, loc>>

\* Storage::deallocate on an AffixStorage with a prefix
AffixDeallocate(b) ==
    /\ kind \in AffixKinds
    /\ AllIdle
    /\ ~NO_AFFIX
    /\ b \in Held
    /\ LET s == surround(b.layout)
           handle == BumpStorage_offset_back(b.handle, s.prefix)
       IN  /\ live' = Give(b)
           /\ last' = Last("deallocate", b.handle, b.layout, b.layout, Ok(b.handle, 0),
                           TRUE, 0, offset)
           /\ inner' = Inner(None, <<StorageCall("deallocate_nonempty", handle, s.layout)>>)
    /\ UNCHANGED <<kind, pad, single, rc, glob, affix, mem, pick, count, offset, issued, pc, call, prev, max_length, bitflags,
                   free_list, oob, loc>>

\* ResizableStorage::grow / grow_zeroed / shrink on an AffixStorage with a
\* prefix: the inner storage is given handle.inner, the handle of the payload
AffixResize(op, b, new) ==
    /\ kind \in AffixKinds
    /\ AllIdle
    /\ ~NO_AFFIX
    /\ b \in Held
    /\ InRegion(b)
    /\ ResizeContract(op, b.layout, new)
    /\ LET n == surround(new)
           o == surround(b.layout)
       IN  IF ~n.ok
           THEN /\ last' = Last(op, b.handle, b.layout, new, Err, FALSE, 0, offset)
                /\ inner' = Inner(None, << >>)
                /\ UNCHANGED <<offset, live, mem, oob>>
           ELSE LET r == BumpStorage_resize(offset, op, b.handle, o.layout, n.layout)
                    res == IF r.res.ok
                           THEN Ok(BumpStorage_offset(r.res.handle, n.prefix), n.layout.size)
                           ELSE Err
                IN  /\ offset' = r.offset
                    /\ live' = IF res.ok THEN Give(b) (+) SetToBag({Block(res.handle, new)})
                               ELSE live
                    /\ last' = Last(op, b.handle, b.layout, new, res, TRUE, r.copied, offset)
                    /\ inner' = Inner(None, <<StorageCall(op, b.handle, o.layout)>>)
                    /\ \E wild \in WildBytes :
                         LET w == AffixResize_memory(op, b.handle, o, n, r, wild)
                         IN  /\ mem' = w.mem
                             /\ oob' = IF w.oob THEN "written" ELSE oob
    /\ UNCHANGED <<kind, pad, single, rc, glob, affix, pick, count, issued, pc, call, prev, max_length, bitflags,
                   free_list, loc>>

\* the caller writes known bytes into the prefix, the payload and the suffix of
\* its block b, which it locates with split
AffixWrite(b) ==
    /\ kind \in AffixKinds
    /\ AllIdle
    /\ b \in Held
    /\ Regions(b.handle, b.layout) \subseteq DOMAIN mem
    /\ mem' = [a \in DOMAIN mem |-> IF a \in Regions(b.handle, b.layout)
                                     THEN KnownByte(b.handle, b.layout, a) ELSE mem[a]]
    /\ last' = NoLast
    /\ inner' = NoInner
    /\ UNCHANGED <<kind, pad, single, rc, glob, affix, pick, count, offset, issued, live, pc, call, prev, max_length,
                   bitflags, free_list, oob, loc>>

----------------------------------------------------------------------------
(* Picker<MaxSize<PickValue>, A, B>: two child storages with pointer handles *)

\* Choose for MaxSize<VALUE>
choose(layout) == layout.size <= PickValue

\* Handle::dangling for NonNull<u8>
NonNull_dangling(align) == align

\* the addresses the left child and the right child allocate from
ChildPool(child) ==
    IF child = "left" THEN {16 + i : i \in 0 .. PickerSlots - 1}
    ELSE {32 + i : i \in 0 .. PickerSlots - 1}

OtherChild(child) == IF child = "left" THEN "right" ELSE "left"

\* the child the predicate selects for a layout
Selected(layout) == IF choose(layout) THEN "left" ELSE "right"

NoPick == [left |-> {}, right |-> {}, foreign |-> {}]

\* the layouts the callers of the Picker ask for
PickerLayouts == {Layout(s, 1) : s \in 0 .. MaxSize}

ChildCall(child, op, handle, layout) ==
    [child |-> child, op |-> op, handle |-> handle, layout |-> layout]

\* Storage::allocate of a child: the block and the child's blocks afterwards
Child_allocate(p, child, layout) ==
    LET free == ChildPool(child) \ p[child]
    IN  IF ~NonEmptyLayout_new(layout)
        THEN [res |-> Ok(NonNull_dangling(layout.align), 0), pick |-> p]
        ELSE IF free = {} THEN [res |-> Err, pick |-> p]
        ELSE LET a == Lowest(free)
             IN  [res |-> Ok(a, layout.size), pick |-> [p EXCEPT ![child] = @ \cup {a}]]

\* Storage::deallocate of a child; a handle the child did not allocate is
\* recorded as foreign to it
Child_deallocate(p, child, handle, layout) ==
    IF ~NonEmptyLayout_new(layout) THEN p
    ELSE IF handle \in p[child] THEN [p EXCEPT ![child] = @ \ {handle}]
    ELSE [p EXCEPT !.foreign = @ \cup {[child |-> child, handle |-> handle]}]

\* ResizableStorage::grow of a child: it resizes in place or it moves the block
Child_grow(p, child, handle, old, new) ==
    LET moved == Child_allocate(p, child, new)
    IN  (IF NonEmptyLayout_new(old) /\ NonEmptyLayout_new(new) /\ handle \in p[child]
         THEN {[res |-> Ok(handle, new.size), pick |-> p]} ELSE {})
        \cup {[res |-> moved.res,
                pick |-> IF moved.res.ok THEN Child_deallocate(moved.pick, child, handle, old)
                         ELSE p]}

\* the zero-sized blocks: any caller can make one up, so they are not tracked
PickerZeroBlocks ==
    {Block(NonNull_dangling(l.align), l) : l \in {k \in PickerLayouts : ~NonEmptyLayout_new(k)}}

\* the callers' blocks `held` after one of them receives b
PickerTake(held, b) == IF NonEmptyLayout_new(b.layout) THEN held (+) SetToBag({b}) ELSE held

\* Storage::allocate / SharedStorage::shared_allocate on a Picker
PickerAllocate(op, layout) ==
    /\ kind \in PickerKinds
    /\ AllIdle
    /\ LET child == Selected(layout)
           a == Child_allocate(pick, child, layout)
       IN  /\ pick' = a.pick
           /\ live' = IF a.res.ok THEN PickerTake(live, Block(a.res.handle, layout)) ELSE live
           /\ last' = Last(op, None, layout, layout, a.res, NonEmptyLayout_new(layout), 0, offset)
           /\ inner' = Inner(None, <<ChildCall(child, "allocate", None, layout)>>)
    /\ UNCHANGED <<kind, pad, single, rc, glob, affix, mem, count, offset, issued, pc, call, prev, max_length, bitflags,
                   free_list, oob, loc>>

\* Storage::deallocate / SharedStorage::shared_deallocate on a Picker
PickerDeallocate(op, b) ==
    /\ kind \in PickerKinds
    /\ AllIdle
    /\ b \in Held \cup PickerZeroBlocks
    /\ LET child == Selected(b.layout)
       IN  /\ pick' = Child_deallocate(pick, child, b.handle, b.layout)
           /\ live' = Give(b)
           /\ last' = Last(op, b.handle, b.layout, b.layout, Ok(b.handle, 0),
                           NonEmptyLayout_new(b.layout), 0, offset)
           /\ inner' = Inner(None, <<ChildCall(child, "deallocate", b.handle, b.layout)>>)
    /\ UNCHANGED <<kind, pad, single, rc, glob, affix, mem, count, offset, issued, pc, call, prev, max_length, bitflags,
                   free_list, oob, loc>>

\* grow, grow_zeroed, shrink and their shared forms on a Picker: when the
\* predicate selects one child for both layouts that child's grow is called;
\* otherwise with o = choose(old) the new block is allocated from left if o and
\* from right if not, and the old block is deallocated to right if o and to
\* left if not
PickerResize(op, b, new) ==
    /\ kind \in PickerKinds
    /\ AllIdle
    /\ b \in Held \cup PickerZeroBlocks
    /\ ResizeContract(IF op \in {"shrink", "shared_shrink"} THEN "shrink" ELSE "grow",
                      b.layout, new)
    /\ LET o == choose(b.layout)
           n == choose(new)
       IN  IF o = n
           THEN LET child == IF o THEN "left" ELSE "right"
                IN  \E r \in Child_grow(pick, child, b.handle, b.layout, new) :
                        /\ pick' = r.pick
                        /\ live' = IF r.res.ok
                                   THEN PickerTake(Give(b), Block(r.res.handle, new))
                                   ELSE live
                        /\ last' = Last(op, b.handle, b.layout, new, r.res, FALSE, 0, offset)
                        /\ inner' = Inner(None, <<ChildCall(child, "grow", b.handle, b.layout)>>)
           ELSE LET to == IF o THEN "left" ELSE "right"
                    from == IF o THEN "right" ELSE "left"
                    a == Child_allocate(pick, to, new)
                IN  IF ~a.res.ok
                    THEN /\ last' = Last(op, b.handle, b.layout, new, Err, FALSE, 0, offset)
                         /\ inner' = Inner(None, <<ChildCall(to, "allocate", None, new)>>)
                         /\ UNCHANGED <<pick, live>>
                    ELSE /\ pick' = Child_deallocate(a.pick, from, b.handle, b.layout)
                         /\ live' = PickerTake(Give(b), Block(a.res.handle, new))
                         /\ last' = Last(op, b.handle, b.layout, new, a.res, FALSE,
                                         IF op \in {"shrink", "shared_shrink"} THEN a.res.size
                                         ELSE b.layout.size, offset)
                         /\ inner' = Inner(None,
                                           <<ChildCall(to, "allocate", None, new),
                                             ChildCall(from, "deallocate", b.handle, b.layout)>>)
    /\ UNCHANGED <<kind, pad, single, rc, glob, affix, mem, count, offset, issued, pc, call, prev, max_length, bitflags,
                   free_list, oob, loc>>

----------------------------------------------------------------------------
(* RefCounted: strong handles over an AffixStorage over a single-slot storage *)

\* Counter::INIT for Cell<usize> and AtomicUsize
Counter_INIT == 1

\* the two counters of the four flavours: I counts the strong handles, A the
\* weak ones plus one for all the strong handles; One is the counter that
\* is always 1
CounterI == IF kind \in {"rc", "slim_rc"} THEN "Cell" ELSE "Atomic"

CounterA == IF kind \in {"slim_rc", "slim_arc"} THEN "One" ELSE CounterI

\* a decrement that reports the value after it
Counter_dec_after(flavour, counter) ==
    IF flavour = "One" THEN [returns |-> 1, counter |-> counter]
    ELSE [returns |-> wrapping_sub(counter, 1), counter |-> wrapping_sub(counter, 1)]

\* Counter::dec: the value before the decrement and the counter after it
Counter_dec(flavour, counter) ==
    IF flavour = "One" THEN [returns |-> 1, counter |-> counter]
    ELSE [returns |-> counter, counter |-> wrapping_sub(counter, 1)]

\* DynamicCounter::inc: None when the counter cannot be incremented
DynamicCounter_inc(counter) == checked_add(counter, 1)

\* the layout of Counters<I, A> in words
CountersLayout == Layout(IF CounterA = "One" THEN 1 ELSE 2, 1)

\* the layouts of the values put in a Box or an Rc
ValueLayouts == {Layout(1, 1), Layout(2, 1)}

\* SingleStackStorage::fits
fits(layout) == SlotSize >= layout.size /\ 1 >= layout.align

\* SingleStackStorage::allocate_nonempty under AffixStorage::allocate: whether
\* the Box gets its memory
Box_try_uninit_in(layout) ==
    LET s == surround(layout)
    IN  s.ok /\ ~rc.allocated /\ fits(s.layout)

NoRc ==
    [init |-> 0, alloc |-> 0, handles |-> 0, allocated |-> FALSE, destroyed |-> 0, freed |-> 0,
     op |-> "none", arg |-> Layout(0, 1), result |-> "none"]

RcIdle(t) == kind \in RcKinds /\ MayCall(t)

RcFrame ==
    UNCHANGED <<kind, pad, single, glob, affix, mem, pick, count, offset, issued, live, call, prev, max_length,
                bitflags, free_list, oob, inner, loc, last>>

\* Box::try_uninit_in(storage) for a value of the given layout, and then either
\* Rc::from(box) (the counters are written with INIT) or the drop of the box
RcTryNew(t, layout, keep) ==
    /\ RcIdle(t)
    /\ IF ~Box_try_uninit_in(layout)
       THEN rc' = [rc EXCEPT !.op = "try_new", !.arg = layout, !.result = "err"]
       ELSE IF keep
       THEN rc' = [init |-> Counter_INIT, alloc |-> Counter_INIT, handles |-> 1,
                   allocated |-> TRUE, destroyed |-> 0, freed |-> 0,
                   op |-> "try_new", arg |-> layout, result |-> "ok"]
       ELSE rc' = [rc EXCEPT !.op = "try_new", !.arg = layout, !.result = "ok"]
    /\ UNCHANGED pc
    /\ RcFrame

\* Clone::clone of a strong handle: inc, and a panic when inc returns None
RcClone(t) ==
    /\ RcIdle(t)
    /\ rc.handles >= 1
    /\ LET n == DynamicCounter_inc(rc.init)
       IN  IF n = None
           THEN rc' = [rc EXCEPT !.op = "clone", !.result = "panic"]
           ELSE rc' = [rc EXCEPT !.init = n, !.handles = @ + 1, !.op = "clone", !.result = "ok"]
    /\ UNCHANGED pc
    /\ RcFrame

\* Drop::drop of a strong handle: drop_fast::<StrongKind> decrements the strong
\* counter, and goes on to drop_slow when dec returns 1
RcDrop(t) ==
    /\ RcIdle(t)
    /\ rc.handles >= 1
    /\ LET d == Counter_dec(CounterI, rc.init)
       IN  /\ rc' = [rc EXCEPT !.init = d.counter, !.handles = @ - 1, !.op = "drop",
                                !.result = IF d.returns = 1 THEN "none" ELSE "ok"]
           /\ pc' = [pc EXCEPT ![t] = IF d.returns = 1 THEN "rc_destroy" ELSE "idle"]
    /\ RcFrame

\* drop_slow::<StrongKind>: drop_in_place runs the destructor of the value
RcDropInPlace(t) ==
    /\ kind \in RcKinds
    /\ pc[t] = "rc_destroy"
    /\ rc' = [rc EXCEPT !.destroyed = @ + 1]
    /\ pc' = [pc EXCEPT ![t] = "rc_weak"]
    /\ RcFrame

\* the scope guard of drop_slow::<StrongKind>: drop_fast::<WeakKind> decrements
\* the other counter, and goes on to drop_slow when dec returns 1
RcWeakDec(t) ==
    /\ kind \in RcKinds
    /\ pc[t] = "rc_weak"
    /\ LET d == Counter_dec(CounterA, rc.alloc)
       IN  /\ rc' = [rc EXCEPT !.alloc = d.counter,
                                !.result = IF d.returns = 1 THEN "none" ELSE "ok"]
           /\ pc' = [pc EXCEPT ![t] = IF d.returns = 1 THEN "rc_dealloc" ELSE "idle"]
    /\ RcFrame

\* drop_slow::<WeakKind>: storage.deallocate(handle, layout), which ends in
\* SingleStackStorage::deallocate_nonempty
RcDeallocate(t) ==
    /\ kind \in RcKinds
    /\ pc[t] = "rc_dealloc"
    /\ rc' = [rc EXCEPT !.allocated = FALSE, !.freed = @ + 1, !.result = "ok"]
    /\ pc' = [pc EXCEPT ![t] = "idle"]
    /\ RcFrame

\* Clone::clone_from of a strong handle from another handle of the allocation:
\* inc on the counter of self, a panic when inc returns None, and
\* self.storage.clone_from(&other.storage); self.handle stays, and no handle is
\* made or dropped
RcCloneFrom(t) ==
    /\ RcIdle(t)
    /\ rc.handles >= 2
    /\ rc.init - rc.handles < MaxCloneFrom
    /\ LET n == DynamicCounter_inc(rc.init)
       IN  IF n = None
           THEN rc' = [rc EXCEPT !.op = "clone_from", !.result = "panic"]
           ELSE rc' = [rc EXCEPT !.init = n, !.op = "clone_from", !.result = "ok"]
    /\ UNCHANGED pc
    /\ RcFrame

----------------------------------------------------------------------------
(* Global: the storage installed once by set_global_storage *)

UNINIT == 0
WRITING == 1
INIT == 2

\* &NoOpStorage, the initial value of GLOBAL
NoOpStorage == "no_op"

\* the storage thread t passes to set_global_storage
StorageOf(t) == IF t = 1 THEN "storage_1" ELSE "storage_2"

NoRequest == [observed |-> UNINIT, by |-> "none", ok |-> FALSE]

NoGlobal ==
    [state |-> UNINIT, GLOBAL |-> NoOpStorage, writer |-> 0,
     seen |-> [t \in Threads |-> UNINIT], calls |-> 0, trues |-> 0, falses |-> 0,
     request |-> [t \in Threads |-> NoRequest]]

\* INITIALIZER_STATE.load(Relaxed) by thread t: a value of the state that is
\* not older than one the thread has already seen
load_Relaxed(t) == {v \in UNINIT .. INIT : glob.seen[t] <= v /\ v <= glob.state}

\* the read of the static GLOBAL by thread t: the writer's own read gives what
\* it wrote; for another thread the read is not ordered after the write (the
\* state was loaded with Relaxed), so it gives the old reference, the new one,
\* or a mix of the two words of the fat reference
read_GLOBAL(t) ==
    IF glob.writer \in {0, t} THEN {glob.GLOBAL}
    ELSE {glob.GLOBAL, NoOpStorage, "torn"}

GlobalFrame ==
    UNCHANGED <<kind, pad, single, rc, affix, mem, pick, count, offset, issued, live, call, prev, max_length,
                bitflags, free_list, oob, inner, loc, last>>

\* set_global_storage returns false to thread t
SetReturnFalse(t, v) ==
    /\ glob' = [glob EXCEPT !.seen[t] = v, !.falses = @ + 1]
    /\ pc' = [pc EXCEPT ![t] = "idle"]

\* set_global_storage(global) by thread t: the load of the state
SetGlobalLoad(t) ==
    /\ kind \in GlobalKinds
    /\ pc[t] = "idle"
    /\ glob.calls < MaxCalls
    /\ \E v \in load_Relaxed(t) :
            IF v # UNINIT
            THEN /\ glob' = [glob EXCEPT !.seen[t] = v, !.falses = @ + 1, !.calls = @ + 1]
                 /\ UNCHANGED pc
            ELSE /\ glob' = [glob EXCEPT !.calls = @ + 1]
                 /\ pc' = [pc EXCEPT ![t] = "g_cas"]
    /\ GlobalFrame

\* set_global_storage: compare_exchange(UNINIT, WRITING)
SetGlobalCas(t) ==
    /\ pc[t] = "g_cas"
    /\ IF compare_exchange_succeeds(glob.state, UNINIT)
       THEN /\ glob' = [glob EXCEPT !.state = WRITING, !.seen[t] = WRITING]
            /\ pc' = [pc EXCEPT ![t] = "g_write"]
       ELSE SetReturnFalse(t, glob.state)
    /\ GlobalFrame

\* set_global_storage: GLOBAL = global
SetGlobalWrite(t) ==
    /\ pc[t] = "g_write"
    /\ glob' = [glob EXCEPT !.GLOBAL = StorageOf(t), !.writer = t]
    /\ pc' = [pc EXCEPT ![t] = "g_store"]
    /\ GlobalFrame

\* set_global_storage: INITIALIZER_STATE.store(INIT), and the return of true
SetGlobalStore(t) ==
    /\ pc[t] = "g_store"
    /\ glob' = [glob EXCEPT !.state = INIT, !.seen[t] = INIT, !.trues = @ + 1]
    /\ pc' = [pc EXCEPT ![t] = "idle"]
    /\ GlobalFrame

\* an allocation request through Global by thread t: global() picks the
\* storage, which serves the request; NoOpStorage returns Err
GlobalAllocate(t) ==
    /\ kind \in GlobalKinds
    /\ pc[t] = "idle"
    /\ \E v \in load_Relaxed(t) :
         \E g \in IF v = INIT THEN read_GLOBAL(t) ELSE {NoOpStorage} :
            glob' = [glob EXCEPT !.seen[t] = v,
                                 !.request[t] = [observed |-> v, by |-> g,
                                                 ok |-> g \notin {NoOpStorage, "torn"}]]
    /\ UNCHANGED pc
    /\ GlobalFrame

----------------------------------------------------------------------------
(* SingleStackStorage: one slot and its allocated flag *)

\* the layouts the callers of the single-slot storage ask for
SingleLayouts ==
    {Layout(0, 1), Layout(1, 1), Layout(SlotSize, 1), Layout(SlotSize + 1, 1), Layout(1, 2)}

NoSingle ==
    [allocated |-> FALSE, twin |-> FALSE, held |-> [t \in Threads |-> {}],
     op |-> "none", arg |-> Layout(0, 1), by |-> 0, ok |-> FALSE, twin_ok |-> FALSE,
     served |-> 0]

\* Storage::allocate_nonempty on a slot whose flag is `allocated`
Single_allocate_nonempty(allocated, layout) ==
    IF ~allocated /\ fits(layout)
    THEN [ok |-> TRUE, allocated |-> TRUE]
    ELSE [ok |-> FALSE, allocated |-> allocated]

\* Storage::allocate
Single_allocate(allocated, layout) ==
    IF ~allocated /\ fits(layout)
    THEN [ok |-> TRUE, allocated |-> allocated \/ layout.size # 0]
    ELSE [ok |-> FALSE, allocated |-> allocated]

\* Storage::deallocate_nonempty
Single_deallocate_nonempty(allocated, layout) == [ok |-> TRUE, allocated |-> FALSE]

\* Storage::deallocate
Single_deallocate(allocated, layout) ==
    [ok |-> TRUE, allocated |-> allocated /\ layout.size = 0]

\* SingleStackStorage::aquire: compare_exchange(false, true)
aquire(allocated) ==
    IF compare_exchange_succeeds(allocated, FALSE)
    THEN [ok |-> TRUE, allocated |-> TRUE]
    ELSE [ok |-> FALSE, allocated |-> allocated]

\* SharedStorage::shared_allocate_nonempty
Single_shared_allocate_nonempty(allocated, layout) ==
    IF fits(layout) THEN aquire(allocated) ELSE [ok |-> FALSE, allocated |-> allocated]

\* SharedStorage::shared_allocate
Single_shared_allocate(allocated, layout) ==
    IF ~fits(layout) THEN [ok |-> FALSE, allocated |-> allocated]
    ELSE IF layout.size = 0 THEN [ok |-> TRUE, allocated |-> allocated]
    ELSE aquire(allocated)

\* SharedStorage::shared_deallocate_nonempty: store(false)
Single_shared_deallocate_nonempty(allocated, layout) == [ok |-> TRUE, allocated |-> FALSE]

\* SharedStorage::shared_deallocate: fetch_and(layout.size() == 0)
Single_shared_deallocate(allocated, layout) ==
    [ok |-> TRUE, allocated |-> allocated /\ layout.size = 0]

\* the exclusive method `op` and the shared method of the same name
Single_exclusive(op, allocated, layout) ==
    CASE op = "allocate_nonempty" -> Single_allocate_nonempty(allocated, layout)
      [] op = "allocate" -> Single_allocate(allocated, layout)
      [] op = "deallocate_nonempty" -> Single_deallocate_nonempty(allocated, layout)
      [] op = "deallocate" -> Single_deallocate(allocated, layout)

Single_shared(op, allocated, layout) ==
    CASE op = "allocate_nonempty" -> Single_shared_allocate_nonempty(allocated, layout)
      [] op = "allocate" -> Single_shared_allocate(allocated, layout)
      [] op = "deallocate_nonempty" -> Single_shared_deallocate_nonempty(allocated, layout)
      [] op = "deallocate" -> Single_shared_deallocate(allocated, layout)

SingleOps == {"allocate_nonempty", "allocate", "deallocate_nonempty", "deallocate"}

\* what the caller must guarantee: a non-empty layout for the _nonempty
\* methods, and for a deallocation a block it holds
SingleContract(t, op, layout) ==
    /\ op \in {"allocate_nonempty", "deallocate_nonempty"} => NonEmptyLayout_new(layout)
    /\ op \in {"deallocate_nonempty", "deallocate"} => layout \in single.held[t]
    /\ op \in {"allocate_nonempty", "allocate"} => single.served < MaxServed

\* the blocks thread t holds after its call `op` with result `ok`
SingleHeld(t, op, layout, ok) ==
    IF op \in {"allocate_nonempty", "allocate"}
    THEN IF ok THEN single.held[t] \cup {layout} ELSE single.held[t]
    ELSE single.held[t] \ {layout}

\* the number of non-empty blocks handed out so far
SingleServed(op, layout, ok) ==
    IF op \in {"allocate_nonempty", "allocate"} /\ ok /\ NonEmptyLayout_new(layout)
    THEN single.served + 1 ELSE single.served

SingleFrame ==
    UNCHANGED <<kind, pad, rc, glob, affix, mem, pick, count, offset, issued, live, pc, call, prev,
                max_length, bitflags, free_list, oob, inner, loc, last>>

\* one caller makes the same call on two storages in the same state: through
\* the exclusive method on one, through the shared method on its twin
SingleTwinCall(op, layout) ==
    /\ kind = "single"
    /\ SingleContract(1, op, layout)
    /\ LET e == Single_exclusive(op, single.allocated, layout)
           s == Single_shared(op, single.twin, layout)
       IN  single' = [allocated |-> e.allocated, twin |-> s.allocated,
                      held |-> [single.held EXCEPT
                                    ![1] = SingleHeld(1, op, layout, e.ok /\ s.ok)],
                      op |-> op, arg |-> layout, by |-> 1, ok |-> e.ok, twin_ok |-> s.ok,
                      served |-> SingleServed(op, layout, e.ok)]
    /\ SingleFrame

\* thread t calls a method of the slot: a shared one, or an exclusive one at a
\* moment when it has the storage to itself; each is one atomic access to the flag
SingleCall(t, shared, op, layout) ==
    /\ kind = "single_mt"
    /\ SingleContract(t, op, layout)
    /\ LET r == IF shared THEN Single_shared(op, single.allocated, layout)
                ELSE Single_exclusive(op, single.allocated, layout)
       IN  single' = [allocated |-> r.allocated, twin |-> single.twin,
                      held |-> [single.held EXCEPT ![t] = SingleHeld(t, op, layout, r.ok)],
                      op |-> op, arg |-> layout, by |-> t, ok |-> r.ok, twin_ok |-> FALSE,
                      served |-> SingleServed(op, layout, r.ok)]
    /\ SingleFrame

\* ResizableStorage::grow / grow_zeroed: self.deallocate((), old), then
\* self.allocate(new) / self.allocate_zeroed(new)
Single_grow(allocated, old, new) ==
    Single_allocate(Single_deallocate(allocated, old).allocated, new)

\* ResizableStorage::shrink: Ok, the flag is not touched
Single_shrink(allocated, old, new) == [ok |-> TRUE, allocated |-> allocated]

\* SharedResizableStorage::shared_grow / shared_grow_zeroed
Single_shared_grow(allocated, old, new) ==
    IF ~fits(new) THEN [ok |-> FALSE, allocated |-> allocated]
    ELSE IF old.size # 0 \/ new.size = 0 THEN [ok |-> TRUE, allocated |-> allocated]
    ELSE aquire(allocated)

\* the caller resizes a block it holds on the two storages: through the
\* exclusive method on one, through the shared method on its twin
SingleTwinResize(op, old, new) ==
    /\ kind = "single"
    /\ old \in single.held[1]
    /\ ResizeContract(op, old, new)
    /\ single.served < MaxServed
    /\ LET e == IF op = "shrink" THEN Single_shrink(single.allocated, old, new)
                ELSE Single_grow(single.allocated, old, new)
           s == IF op = "shrink" THEN Single_shrink(single.twin, old, new)
                ELSE Single_shared_grow(single.twin, old, new)
       IN  single' = [allocated |-> e.allocated, twin |-> s.allocated,
                      held |-> [single.held EXCEPT
                                    ![1] = IF e.ok /\ s.ok THEN (@ \ {old}) \cup {new} ELSE @],
                      op |-> op, arg |-> new, by |-> 1, ok |-> e.ok, twin_ok |-> s.ok,
                      served |-> IF e.ok /\ old.size = 0 /\ new.size # 0
                                 THEN single.served + 1 ELSE single.served]
    /\ SingleFrame

----------------------------------------------------------------------------
(* Pad<BumpStorage, SIZE, ALIGN>: every layout padded to a minimum *)

\* the SIZE and ALIGN parameters of the scenarios
PadSizes == {0, 2}

PadAligns == {1, 2}

NoPad == [SIZE |-> 0, ALIGN |-> 1]

\* the layouts the callers of the Pad ask for; the last is the largest layout of
\* alignment 1 there is
PadLayouts == {Layout(s, a) : s \in 0 .. 3, a \in {1, 2}} \cup {Layout(ISIZE_MAX, 1)}

\* usize::max
usize_max(a, b) == IF a >= b THEN a ELSE b

\* Layout::from_size_align: no layout when the size, rounded up to the
\* alignment, would pass isize::MAX
Layout_from_size_align(size, align) ==
    [ok |-> size <= ISIZE_MAX - (align - 1), layout |-> Layout(size, align)]

\* a padding that leaves the size as it is
not_padded(layout) == layout

\* Layout::pad_to_align: the size rounded up to a multiple of the alignment
pad_to_align(layout) ==
    Layout(((layout.size + layout.align - 1) \div layout.align) * layout.align, layout.align)

\* pad::<SIZE, ALIGN>(layout); `unwrap` panics when there is no such layout
Pad_pad(layout) ==
    LET r == Layout_from_size_align(usize_max(layout.size, pad.SIZE),
                                    usize_max(layout.align, pad.ALIGN))
    IN  [panic |-> ~r.ok, layout |-> pad_to_align(r.layout)]

\* pad_unchecked::<SIZE, ALIGN>(layout)
Pad_pad_unchecked(layout) ==
    pad_to_align(Layout(usize_max(layout.size, pad.SIZE), usize_max(layout.align, pad.ALIGN)))

\* the method of the inner storage that Pad::allocate / deallocate calls: the
\* default one when SIZE is 0, else the one for non-empty layouts
PadInner(op) == IF pad.SIZE = 0 THEN op ELSE op \o "_nonempty"

\* the result of a call that panicked
Panicked == [ok |-> FALSE, handle |-> None, size |-> 0, panic |-> TRUE]

\* Storage::allocate on a Pad over a BumpStorage
PadAllocate(layout) ==
    /\ kind = "pad"
    /\ LET p == Pad_pad(layout)
       IN  IF p.panic
           THEN /\ last' = Last("allocate", None, layout, layout, Panicked, FALSE, 0, offset)
                /\ inner' = Inner(None, << >>)
                /\ UNCHANGED <<offset, live, issued>>
           ELSE LET a == Storage_allocate(offset, p.layout)
                IN  /\ offset' = a.offset
                    /\ live' = IF a.res.ok /\ a.nonempty THEN Take(Block(a.res.handle, layout))
                               ELSE live
                    /\ issued' = IF a.res.ok /\ a.nonempty
                                 THEN Append(issued, [handle |-> a.res.handle,
                                                      layout |-> layout, padded |-> p.layout])
                                 ELSE issued
                    /\ last' = Last("allocate", None, layout, layout, a.res, a.nonempty, 0,
                                    offset)
                    /\ inner' = Inner(None, <<StorageCall(PadInner("allocate"), None, p.layout)>>)
    /\ UNCHANGED <<kind, pad, single, rc, glob, affix, mem, pick, count, pc, call, prev, max_length, bitflags, free_list, oob, loc>>

\* the blocks of size 0 that a Pad with SIZE = 0 hands out without a call for a
\* non-empty layout
PadZeroBlocks ==
    IF pad.SIZE = 0 THEN {Block(BumpHandle_dangling(a), Layout(0, a)) : a \in {1, 2}} ELSE {}

\* Storage::deallocate on a Pad over a BumpStorage
PadDeallocate(b) ==
    /\ kind = "pad"
    /\ b \in Held \cup PadZeroBlocks
    /\ LET layout == Pad_pad_unchecked(b.layout)
       IN  /\ live' = Give(b)
           /\ last' = Last("deallocate", b.handle, b.layout, b.layout, Ok(b.handle, 0),
                           pad.SIZE # 0 \/ Storage_deallocate(layout), 0, offset)
           /\ inner' = Inner(None, <<StorageCall(PadInner("deallocate"), b.handle, layout)>>)
    /\ UNCHANGED <<kind, pad, single, rc, glob, affix, mem, pick, count, offset, issued, pc, call, prev, max_length, bitflags, free_list, oob, loc>>

----------------------------------------------------------------------------
(* The behaviours *)

Init ==
    /\ kind \in BumpKinds \cup FreeListKinds \cup CountingKinds \cup CountingSharedKinds
                \cup AffixKinds \cup PickerKinds \cup RcKinds \cup GlobalKinds
                \cup SingleStackKinds \cup {"pad"}
    /\ pick = NoPick
    /\ rc = NoRc
    /\ glob = NoGlobal
    /\ single = NoSingle
    /\ pad \in IF kind = "pad" THEN {[SIZE |-> s, ALIGN |-> a] : s \in PadSizes, a \in PadAligns}
               ELSE {NoPad}
    /\ affix \in IF kind \in AffixKinds
                 THEN {[pre |-> p, suf |-> q] : p \in Prefixes, q \in Suffixes}
                 ELSE IF kind \in RcKinds
                 THEN {[pre |-> CountersLayout, suf |-> Layout(0, 1)]}
                 ELSE {NoAffix}
    /\ offset = IF kind = "freelist_mt" THEN SharedSpace
                ELSE IF kind = "pad" THEN PadSpace
                ELSE IF kind = "affix" THEN AffixSpace
                ELSE IF kind = "affix_mem" THEN AffixMemSpace ELSE Space
    /\ issued = << >>
    /\ live = EmptyBag
    /\ pc = [t \in Threads |-> "idle"]
    /\ call = [t \in Threads |-> NoCall]
    /\ prev = [t \in Threads |-> 0]
    /\ last = NoLast
    /\ count = 0
    /\ mem = [a \in 0 .. (IF kind = "affix_mem" THEN AffixMemSpace ELSE 0) - 1 |-> 0]
    /\ max_length \in IF kind \in FreeListKinds THEN 1 .. MaxLength ELSE {1}
    /\ bitflags = [n \in 1 .. bitflags_len(max_length) |-> 0]
    /\ free_list = [n \in 1 .. max_length |-> EmptyItem]
    /\ oob = "no"
    /\ inner = NoInner
    /\ loc = [t \in Threads |-> NoLoc]

NextBump ==
    \/ \E layout \in Layouts : BumpAllocate(layout)
    \/ \E b \in Held \cup ZeroBlocks : BumpDeallocate(b)
    \/ \E op \in ResizeOps, b \in Held \cup ZeroBlocks, new \in Layouts : BumpResize(op, b, new)
    \/ \E t \in Threads, layout \in Layouts : BumpSharedAllocate(t, layout)
    \/ \E t \in Threads, b \in Held \cup ZeroBlocks : BumpSharedDeallocate(t, b)
    \/ \E t \in Threads, op \in SharedResizeOps, b \in Held \cup ZeroBlocks, new \in Layouts :
            BumpSharedResize(t, op, b, new)
    \/ \E t \in Threads : BumpSharedLoad(t)
    \/ \E t \in Threads : BumpSharedCas(t)

InitBump == Init /\ kind \in BumpKinds

SpecBump == InitBump /\ [][NextBump]_vars

\* allocation and deallocation on the free list
NextPool ==
    \/ \E layout \in FreeListLayouts : FreeListAllocate(layout)
    \/ \E b \in Held \cup ZeroBlocks : FreeListDeallocate(b)
    \/ \E t \in Threads, layout \in FreeListLayouts : FreeListSharedAllocate(t, layout)
    \/ \E t \in Threads, b \in Held \cup ZeroBlocks : FreeListSharedDeallocate(t, b)
    \/ \E t \in Threads : FreeListLoad(t)
    \/ \E t \in Threads : FreeListFetchOr(t)
    \/ \E t \in Threads : FreeListAllocScan(t)
    \/ \E t \in Threads : FreeListDeallocScan(t)
    \/ \E t \in Threads : BumpSharedLoad(t)
    \/ \E t \in Threads : BumpSharedCas(t)

\* the same with try_shared_flush and shared_flush
NextFreeList ==
    \/ NextPool
    \/ \E t \in Threads, force_retry \in BOOLEAN : FreeListSharedFlush(t, force_retry)
    \/ \E t \in Threads : FreeListFlushLoad(t)
    \/ \E t \in Threads : FreeListFlushReload(t)
    \/ \E t \in Threads : FreeListFlushCas(t)
    \/ \E t \in Threads : FreeListFlushScan(t)

InitFreeList == Init /\ kind \in FreeListKinds

SpecFreeList == InitFreeList /\ [][NextFreeList]_vars

SpecPool == InitFreeList /\ [][NextPool]_vars

\* one caller that allocates, deallocates and flushes through &mut self
NextFlush ==
    \/ \E layout \in FreeListLayouts : FreeListAllocate(layout)
    \/ \E b \in Held \cup ZeroBlocks : FreeListDeallocate(b)
    \/ \E op \in FlushOps : FreeListFlush(op)

InitFlush == Init /\ kind = "freelist"

SpecFlush == InitFlush /\ [][NextFlush]_vars

\* the calls on a Pad over a BumpStorage
NextPad ==
    \/ \E layout \in PadLayouts : PadAllocate(layout)
    \/ \E b \in Held \cup PadZeroBlocks : PadDeallocate(b)

InitPad == Init /\ kind = "pad"

SpecPad == InitPad /\ [][NextPad]_vars

\* the calls on a CountingBumpStorage
NextCounting ==
    \/ \E layout \in Layouts : CountingAllocate(layout)
    \/ \E b \in Held \cup ZeroBlocks : CountingDeallocate(b)
    \/ \E t \in Threads, layout \in Layouts : BumpSharedAllocate(t, layout)
    \/ \E t \in Threads : BumpSharedLoad(t)
    \/ \E t \in Threads : BumpSharedCas(t)
    \/ \E t \in Threads : CountingFetchAdd(t)
    \/ \E t \in Threads, b \in Held \cup ZeroBlocks : CountingSharedDeallocate(t, b)
    \/ \E t \in Threads : CountingFetchSub(t)
    \/ \E t \in Threads : CountingResetIfEq(t)

\* exclusive use of a CountingBumpStorage: allocate and deallocate through &mut self
NextCountingExclusive ==
    \/ \E layout \in Layouts : CountingAllocate(layout)
    \/ \E b \in Held \cup ZeroBlocks : CountingDeallocate(b)

InitCounting == Init /\ kind \in CountingKinds

SpecCountingExclusive == InitCounting /\ [][NextCountingExclusive]_vars

\* shared use of a CountingBumpStorage: threads allocate and deallocate through &self
NextCountingShared ==
    \/ \E t \in Threads, layout \in Layouts : BumpSharedAllocate(t, layout)
    \/ \E t \in Threads : BumpSharedLoad(t)
    \/ \E t \in Threads : BumpSharedCas(t)
    \/ \E t \in Threads : CountingFetchAdd(t)
    \/ \E t \in Threads, b \in Held \cup ZeroBlocks : CountingSharedDeallocate(t, b)
    \/ \E t \in Threads : CountingFetchSub(t)
    \/ \E t \in Threads : CountingResetIfEq(t)

InitCountingShared == Init /\ kind \in CountingSharedKinds

SpecCountingShared == InitCountingShared /\ [][NextCountingShared]_vars

\* the calls on the strong handles of one RefCounted value
NextRc ==
    \/ \E t \in Threads, layout \in ValueLayouts, keep \in BOOLEAN : RcTryNew(t, layout, keep)
    \/ \E t \in Threads : RcClone(t)
    \/ \E t \in Threads : RcDrop(t)
    \/ \E t \in Threads : RcDropInPlace(t)
    \/ \E t \in Threads : RcWeakDec(t)
    \/ \E t \in Threads : RcDeallocate(t)

InitRc == Init /\ kind \in RcKinds

SpecRc == InitRc /\ [][NextRc]_vars

\* the same calls and clone_from
NextRcCloneFrom ==
    \/ NextRc
    \/ \E t \in Threads : RcCloneFrom(t)

SpecRcCloneFrom == InitRc /\ [][NextRcCloneFrom]_vars

\* the calls of set_global_storage and the requests through Global
NextGlobal ==
    \/ \E t \in Threads : SetGlobalLoad(t)
    \/ \E t \in Threads : SetGlobalCas(t)
    \/ \E t \in Threads : SetGlobalWrite(t)
    \/ \E t \in Threads : SetGlobalStore(t)
    \/ \E t \in Threads : GlobalAllocate(t)

InitGlobal == Init /\ kind \in GlobalKinds

SpecGlobal == InitGlobal /\ [][NextGlobal]_vars

\* the same calls on a SingleStackStorage through the exclusive and the shared methods
NextSingleTwin == \E op \in SingleOps, layout \in SingleLayouts : SingleTwinCall(op, layout)

InitSingleTwin == Init /\ kind = "single"

SpecSingleTwin == InitSingleTwin /\ [][NextSingleTwin]_vars

\* the same calls with the resizing methods
NextSingleResize ==
    \/ NextSingleTwin
    \/ \E op \in ResizeOps, old \in SingleLayouts, new \in SingleLayouts :
            SingleTwinResize(op, old, new)

SpecSingleResize == InitSingleTwin /\ [][NextSingleResize]_vars

\* threads calling a SingleStackStorage
NextSingle ==
    \E t \in Threads, shared \in BOOLEAN, op \in SingleOps, layout \in SingleLayouts :
        SingleCall(t, shared, op, layout)

InitSingle == Init /\ kind = "single_mt"

SpecSingle == InitSingle /\ [][NextSingle]_vars

\* the three storages that use the default allocate and deallocate
InitDefaults == Init /\ kind \in BumpKinds \cup FreeListKinds \cup CountingKinds

NextDefaults == NextBump \/ NextPool \/ NextCounting

SpecDefaults == InitDefaults /\ [][NextDefaults]_vars

\* the calls on an AffixStorage
NextAffix ==
    \/ \E layout \in AffixLayouts : AffixAllocate(layout)
    \/ \E b \in Held : AffixDeallocate(b)
    \/ \E op \in ResizeOps, b \in Held, new \in AffixLayouts : AffixResize(op, b, new)

InitAffix == Init /\ kind = "affix"

SpecAffix == InitAffix /\ [][NextAffix]_vars

\* the calls on a Picker
NextPicker ==
    \/ \E op \in {"allocate", "shared_allocate"}, layout \in PickerLayouts :
            PickerAllocate(op, layout)
    \/ \E op \in {"deallocate", "shared_deallocate"}, b \in Held \cup PickerZeroBlocks :
            PickerDeallocate(op, b)
    \/ \E op \in ResizeOps \cup SharedResizeOps, b \in Held \cup PickerZeroBlocks,
            new \in PickerLayouts :
            PickerResize(op, b, new)

InitPicker == Init /\ kind \in PickerKinds

SpecPicker == InitPicker /\ [][NextPicker]_vars

\* the calls on an AffixStorage with a prefix and a suffix, and the caller's writes
NextAffixMem ==
    \/ NextAffix
    \/ \E b \in Held : AffixWrite(b)

InitAffixMem == Init /\ kind = "affix_mem" /\ affix.suf.size # 0

SpecAffixMem == InitAffixMem /\ [][NextAffixMem]_vars

----------------------------------------------------------------------------
(* BumpStorage: the properties *)

Disjoint(a, b) == a.handle + a.size <= b.handle \/ b.handle + b.size <= a.handle

C3_Ranges ==
    \A i \in 1 .. Len(issued) :
        /\ 0 <= issued[i].handle
        /\ issued[i].handle + issued[i].size <= Space
        /\ \A j \in 1 .. Len(issued) : i < j => Disjoint(issued[i], issued[j])

C3_Steps ==
    /\ offset' <= offset
    /\ issued' = issued => offset' = offset
    /\ SubSeq(issued', 1, Len(issued)) = issued

\* C3: the ranges [handle, handle + size) of all the blocks a BumpStorage has
\* returned are pairwise disjoint and lie inside [0, initial space); a step never
\* increases the offset nor changes a block issued earlier, and a step that
\* issues no block (a deallocation among them) leaves the offset unchanged.
C3 == [](C3_Ranges) /\ [][C3_Steps]_vars

\* two blocks were issued, one of them padded for alignment, and one was given back
C3_Witness ==
    /\ Len(issued) >= 2
    /\ \E i \in 1 .. Len(issued) : issued[i].size > issued[i].layout.size
    /\ BagCardinality(live) < Len(issued)

\* the offset after the first k issued blocks are allocated one after the other
\* by the exclusive allocate_nonempty
RECURSIVE SequentialOffset(_)
SequentialOffset(k) ==
    IF k = 0 THEN Space
    ELSE BumpStorage_allocate_nonempty(SequentialOffset(k - 1), issued[k].layout).offset

C4_Linearized ==
    /\ \A k \in 1 .. Len(issued) :
          LET r == BumpStorage_allocate_nonempty(SequentialOffset(k - 1), issued[k].layout)
          IN  /\ r.res.ok
              /\ r.res.handle = issued[k].handle
              /\ r.res.size = issued[k].size
    /\ offset = SequentialOffset(Len(issued))
    /\ \A i, j \in 1 .. Len(issued) : i < j => Disjoint(issued[i], issued[j])

C4_Steps ==
    \A t \in Threads :
        /\ (pc[t] = "cas" /\ pc'[t] = "idle" /\ Len(issued') > Len(issued)) =>
              /\ prev[t] = offset
              /\ offset' = fetch_update_closure(prev[t], call[t].new)
              /\ issued'[Len(issued')].handle = offset'
              /\ issued'[Len(issued')].size = offset - offset'
        /\ (pc[t] \in {"load", "cas"} /\ pc'[t] = "idle" /\ Len(issued') = Len(issued)) =>
              /\ allocate_nonempty_offset(offset, call[t].new) = None
              /\ offset' = offset

\* C4: concurrent shared_allocate_nonempty calls on a BumpStorage are
\* linearizable: the blocks returned and the offset are those of the exclusive
\* allocate_nonempty run on the same requests one after the other in the order
\* the exchanges succeeded; a successful call moves the offset from the value it
\* read to the offset it computed in one step, a failing call fails where the
\* exclusive call at the current offset fails, and no two blocks overlap.
C4 == [](C4_Linearized) /\ [][C4_Steps]_vars

\* concurrent callers: two blocks were issued and a thread is about to lose its
\* compare-exchange because another thread moved the offset after it read it
C4_Witness ==
    /\ kind = "bump_mt"
    /\ Len(issued) >= 2
    /\ \E t \in Threads : pc[t] = "cas" /\ prev[t] # offset

\* C9: grow, grow_zeroed, shrink and their shared variants on a BumpStorage,
\* called with old = new, return the handle they were given with size old.size,
\* reach no allocate_nonempty, copy nothing and leave the offset unchanged.
C9 ==
    (last.op \in ResizeOps \cup SharedResizeOps /\ last.old = last.new) =>
        /\ last.res = Ok(last.arg, last.old.size)
        /\ ~last.nonempty
        /\ last.copied = 0
        /\ offset = last.before

\* a shared_shrink of a non-empty block to its own layout has completed
C9_Witness ==
    /\ last.op = "shared_shrink"
    /\ last.old = last.new
    /\ last.old.size > 0
    /\ last.res.ok

----------------------------------------------------------------------------
(* FreeListStorage, one caller: the properties *)

\* the slots of the pool that are filled and whose record qualifies for `layout`
Qualifying(layout) ==
    {k \in 0 .. max_length - 1 :
        /\ test_bit(bitflags[(k \div 7) + 1], k % 7)
        /\ layout_fits(free_list[k + 1].layout, layout)}

\* this step is an exclusive allocate_nonempty(L') that directly follows an
\* exclusive deallocate_nonempty(h, L) with L'.align = L.align and L'.size <= L.size
C5_Case ==
    /\ kind \in FreeListKinds
    /\ last.op = "deallocate" /\ last.nonempty
    /\ last'.op = "allocate" /\ last'.nonempty
    /\ last'.new.align = last.old.align
    /\ last'.new.size <= last.old.size

C5_Reused ==
    /\ last'.res = Ok(last.arg, last'.new.size)
    /\ inner'.calls = << >>

\* C5 as stated: in any pool state, deallocate_nonempty(h, L) immediately
\* followed by allocate_nonempty(L') with L'.align = L.align and
\* L'.size <= L.size returns h without calling the backend's allocate.
C5_AnyPoolState == [][C5_Case => C5_Reused]_vars

\* C5: deallocate_nonempty(h, L) immediately followed by allocate_nonempty(L')
\* with L'.align = L.align and L'.size <= L.size returns h (with size L'.size)
\* without calling the backend's allocate, provided the deallocate stored h in
\* one of the pool's max_length slots and no filled slot of lower index holds a
\* record that qualifies for L'.
C5 ==
    [][(/\ C5_Case
        /\ inner.slot \in 0 .. max_length - 1
        /\ \A k \in Qualifying(last'.new) : k >= inner.slot)
       => (C5_Reused /\ inner'.slot = inner.slot)]_vars

\* an allocate of a smaller layout directly after a deallocate got the block
\* back from slot 1, slot 0 holding a record that does not qualify
C5_Witness ==
    /\ kind = "freelist"
    /\ last.op = "allocate" /\ last.res.ok
    /\ inner.after # NoBlock
    /\ inner.after.handle = last.res.handle
    /\ last.new.size < inner.after.layout.size
    /\ inner.slot = 1 /\ max_length >= 2
    /\ inner.calls = << >>
    /\ test_bit(bitflags[1], 0)

\* C6: a pool of capacity max_length never has more than max_length filled
\* slots and never reads or writes a slot record of index >= max_length.
C6 ==
    kind \in FreeListKinds =>
        /\ Cardinality(FilledBits) <= max_length
        /\ oob = "no"

C7_Step ==
    (kind \in FreeListKinds /\ last'.op = "allocate" /\ last'.nonempty) =>
        LET layout == last'.new
            q == Qualifying(layout)
        IN  IF q # {}
            THEN LET k == Lowest(q)
                 IN  /\ inner'.slot = k
                     /\ last'.res = Ok(free_list[k + 1].handle, layout.size)
                     /\ bitflags' = [bitflags EXCEPT ![(k \div 7) + 1] = clear_bit(@, k % 7)]
                     /\ inner'.calls = << >>
            ELSE /\ inner'.slot = None
                 /\ inner'.calls = <<StorageCall("allocate_nonempty", None, layout)>>

\* C7: the exclusive allocate_nonempty returns a pooled handle only from a
\* filled slot (one of the pool's max_length) whose stored alignment equals the
\* requested one and whose stored size is at least the requested size; among
\* those it takes the lowest slot index and clears that slot's status bit; it
\* calls the backend exactly when no filled slot qualifies.
C7 == [][C7_Step]_vars

----------------------------------------------------------------------------
(* FreeListStorage, concurrent callers: the properties *)

\* C1: under every interleaving of shared_allocate_nonempty,
\* shared_deallocate_nonempty, try_shared_flush and shared_flush, at most one
\* thread at a time is inside the critical section of a bucket (reading or
\* writing its status bits and slot records), and while a thread is inside, the
\* bucket's lock bit stays set: only the thread that set it clears it.
C1 ==
    kind \in FreeListKinds =>
        \A i \in 0 .. Len(bitflags) - 1 :
            /\ \A t, u \in Threads :
                  (InCriticalSection(t, i) /\ InCriticalSection(u, i)) => t = u
            /\ \A t \in Threads : InCriticalSection(t, i) => is_locked(bitflags[i + 1])

\* the slots of the pool that are filled
FilledSlots == {k \in 0 .. max_length - 1 : test_bit(bitflags[(k \div 7) + 1], k % 7)}

\* C2: with concurrent callers allocating and deallocating, no handle is held
\* by two callers at once, no handle a caller holds is in a filled slot, and no
\* handle is in two filled slots.
C2 ==
    kind = "freelist_mt" =>
        /\ \A b \in Held :
              /\ CopiesIn(b, live) = 1
              /\ \A c \in Held : b.handle = c.handle => b = c
        /\ \A k \in FilledSlots : \A b \in Held : free_list[k + 1].handle # b.handle
        /\ \A k, m \in FilledSlots : free_list[k + 1].handle = free_list[m + 1].handle => k = m

----------------------------------------------------------------------------
(* The default allocate and deallocate: the properties *)

AllocateOps == {"allocate", "shared_allocate"}

DeallocateOps == {"deallocate", "shared_deallocate"}

\* the bump offset, the live count and the pool contents stay as they are
C8_Frame ==
    /\ offset' = offset
    /\ count' = count
    /\ bitflags' = bitflags
    /\ free_list' = free_list
    /\ inner'.calls = << >>

C8_Step ==
    /\ last'.op \in AllocateOps /\ last'.new.size = 0
            => /\ last'.res = Ok(BumpHandle_dangling(last'.new.align), 0)
               /\ ~last'.nonempty
               /\ live' = live
               /\ C8_Frame
    /\ last'.op \in DeallocateOps /\ last'.old.size = 0
            => /\ ~last'.nonempty
               /\ C8_Frame

\* C8: on a BumpStorage, a CountingBumpStorage and a FreeListStorage, allocate and
\* shared_allocate with a layout of size 0 return Ok with the dangling handle and
\* size 0 and do not reach allocate_nonempty; deallocate and shared_deallocate
\* with a layout of size 0 do not reach deallocate_nonempty; both leave the bump
\* offset, the count, the bitmap and the slots unchanged and make no call to
\* the backend.
C8 == [][C8_Step]_vars

\* a size-0 shared_allocate completed on a counting wrapper that holds a block
C8_Witness ==
    /\ kind = "counting"
    /\ last.op = "shared_allocate"
    /\ last.new.size = 0
    /\ last.res = Ok(USIZE_MAX, 0)
    /\ count > 0
    /\ offset < max_offset

----------------------------------------------------------------------------
(* AffixStorage: the properties *)

\* C10: on an AffixStorage with a prefix of non-zero size, a successful
\* grow(h, L, L) or shrink(h, L, L) returns the handle h it was given.
C10 ==
    kind \in AffixKinds /\ affix.pre.size # 0 /\ last.op \in {"grow", "shrink"}
            /\ last.old = last.new /\ last.res.ok
        => last.res.handle = last.arg

\* the block at ptr holds the bytes its caller wrote
Written(ptr, layout) ==
    /\ Regions(ptr, layout) \subseteq DOMAIN mem
    /\ \A a \in Regions(ptr, layout) : mem[a] = KnownByte(ptr, layout, a)

\* the bytes at `to + i`, i < len, after the step are the bytes at `from + i` before it
Carried(from, to, len) ==
    \A i \in 0 .. len - 1 :
        /\ to + i \in DOMAIN mem'
        /\ mem'[to + i] = mem[from + i]

C11_Step ==
    LET h == last'.arg
        L == last'.old
        h2 == last'.res.handle
        L2 == last'.new
    IN  kind = "affix_mem" /\ last'.op = "grow" /\ last'.res.ok /\ L2.size > L.size
                /\ affix.pre.size # 0 /\ affix.suf.size # 0 /\ Written(h, L)
            => /\ Carried(split(h, L).prefix, split(h2, L2).prefix, affix.pre.size)
               /\ Carried(h, h2, L.size)
               /\ Carried(split(h, L).suffix, split(h2, L2).suffix, affix.suf.size)

\* C11: when a block of an AffixStorage with a prefix and a suffix holds the
\* bytes its caller wrote into the prefix, the payload and the suffix, a
\* successful grow to a larger layout leaves the prefix bytes, the first L.size
\* payload bytes and the suffix bytes, read through the returned handle and
\* split with the new layout, equal to the bytes written.
C11 == [][C11_Step]_vars

\* C12: the block AffixStorage::allocate returns can be used up to its reported
\* size: the returned handle plus the reported size lies neither past the end of
\* the inner allocation nor inside the suffix.
C12 ==
    kind \in AffixKinds /\ last.op = "allocate" /\ last.res.ok
        => /\ last.res.handle + last.res.size <= last.before
           /\ last.res.handle + last.res.size <= offset + surround(last.new).suffix

----------------------------------------------------------------------------
(* Picker: the properties *)

\* C13: no block is deallocated to a child storage that did not allocate it,
\* and every block a caller holds was allocated by the child that the
\* predicate selects for its layout (the child its deallocation will go to).
C13 ==
    kind \in PickerKinds
        => /\ pick.foreign = {}
           /\ \A b \in Held : NonEmptyLayout_new(b.layout) => b.handle \in pick[Selected(b.layout)]

----------------------------------------------------------------------------
(* BumpStorage: a failing allocation *)

\* what makes allocate_nonempty fail at offset `off`
C20_Fails(off, layout) == MAX_ALIGN_POW2 < layout.align \/ layout.size > off

C20_Step ==
    kind \in BumpKinds
        => \* the single caller's allocate and shared_allocate
           /\ last'.op \in AllocateOps /\ last'.nonempty
                => /\ last'.res.ok <=> ~C20_Fails(last'.before, last'.new)
                   /\ ~last'.res.ok
                        => last'.res.layout = last'.new /\ offset' = offset
           \* a thread's shared_allocate that returns without a block
           /\ \A t \in Threads :
                call[t].op = "shared_allocate" /\ pc'[t] = "idle" /\ live' = live
                    => offset' = offset /\ C20_Fails(offset, call[t].new)

\* C20: an allocation on a BumpStorage, exclusive or shared, fails when the
\* requested size exceeds the remaining offset or the requested alignment
\* exceeds MAX_ALIGN rounded up to a power of two; it then returns Err carrying
\* the requested layout and leaves the offset unchanged.
C20 == [][C20_Step]_vars

\* an allocation failed for its size after an earlier one had moved the offset
C20_Witness ==
    /\ kind \in BumpKinds
    /\ last.op \in AllocateOps /\ last.nonempty /\ ~last.res.ok
    /\ last.new.align <= MAX_ALIGN_POW2
    /\ 0 < offset /\ offset < Space

----------------------------------------------------------------------------
(* CountingBumpStorage: the properties *)

C14_Step ==
    kind \in CountingKinds
        => /\ count' = BagCardinality(live')
           /\ last'.op = "deallocate"
                => offset' = IF last'.nonempty /\ count' = 0 THEN max_offset ELSE offset
           /\ last'.op = "allocate" => offset' <= offset
           /\ offset' > offset => live' = EmptyBag

\* C14: in exclusive use of a CountingBumpStorage the counter is the number of
\* successful non-empty allocations not yet deallocated, and the bump offset is
\* set back to its initial value exactly by the deallocation that brings the
\* counter to zero, never while a block is live.
C14 == [][C14_Step]_vars

\* a deallocation took the counter to zero and the offset back to its initial value
C14_Witness ==
    /\ kind \in CountingKinds
    /\ last.op = "deallocate" /\ last.nonempty
    /\ count = 0 /\ last.before < max_offset /\ offset = max_offset

\* the blocks whose handles have been returned and not yet deallocated
Returned == {[handle |-> b.handle, size |-> b.layout.size] : b \in Held}

C15_Step ==
    kind \in CountingSharedKinds
        => /\ offset' > offset => live = EmptyBag
           /\ \A b \in Held' : live'[b] = 1
           /\ \A a, b \in Returned' : a # b => Disjoint(a, b)

\* C15: under every interleaving of shared_allocate_nonempty and
\* shared_deallocate_nonempty on a CountingBumpStorage the bump offset is set
\* back to its initial value only when no successfully allocated block is live,
\* and no two blocks that have been returned and not yet deallocated overlap.
C15 == [][C15_Step]_vars

----------------------------------------------------------------------------
(* RefCounted: the properties *)

C16_Step ==
    kind \in RcKinds
        => \* the destructor runs once, when the strong counter went from 1 to 0
           /\ rc'.destroyed <= 1
           /\ rc'.destroyed > rc.destroyed => rc.init = 0 /\ rc.handles = 0
           /\ rc.init > 1 /\ rc.init < USIZE_MAX => rc'.destroyed = rc.destroyed
           \* the memory is given back once, after the destructor, when the
           \* other counter went from 1 to 0
           /\ rc'.freed <= 1
           /\ rc'.freed > rc.freed
                => /\ rc.destroyed = 1 /\ rc.allocated /\ ~rc'.allocated
                   /\ CounterA # "One" => rc.alloc = 0
           \* while a handle is live the value is there and the slot is taken
           /\ rc.handles >= 1
                => /\ rc.allocated /\ rc.destroyed = 0 /\ rc.freed = 0
                   /\ rc.init = rc.handles
                   /\ rc'.op = "try_new" => rc'.result = "err" /\ rc'.handles = rc.handles
           \* after the last drop the slot can be allocated again
           /\ rc.handles = 0 /\ AllIdle
                => /\ ~rc.allocated
                   /\ rc'.op = "try_new" /\ fits(surround(rc'.arg).layout) => rc'.result = "ok"

\* C16: the destructor of the value of an Rc / Arc runs exactly once, when the
\* strong counter goes from 1 to 0; its memory is deallocated exactly once,
\* after the destructor, when the weak-equivalent counter goes from 1 to 0;
\* the single-slot storage refuses another allocation while a handle is live
\* and allocates again after the last handle has been dropped.
C16 == [][C16_Step]_vars

\* the last handle was dropped, the value destroyed and freed once, and the slot
\* was allocated again
C16_Witness ==
    /\ kind \in RcKinds
    /\ rc.op = "try_new" /\ rc.result = "ok"
    /\ rc.handles = 0 /\ rc.destroyed = 1 /\ rc.freed = 1 /\ ~rc.allocated

C17_Step ==
    kind \in RcKinds /\ rc'.op = "clone"
        => /\ rc.init = USIZE_MAX
                => rc'.result = "panic" /\ rc'.init = rc.init /\ rc'.handles = rc.handles
           /\ rc'.init >= rc.init
           /\ rc'.result = "ok" => rc'.init = rc.init + 1

\* C17: a clone of a handle whose counter is at usize::MAX panics and leaves
\* the counter unchanged; a clone never makes the counter wrap around.
C17 == [][C17_Step]_vars

\* a clone was refused with the counter at usize::MAX
C17_Witness ==
    /\ kind \in RcKinds
    /\ rc.op = "clone" /\ rc.result = "panic" /\ rc.init = USIZE_MAX

----------------------------------------------------------------------------
(* Global: the properties *)

C18_Step ==
    kind \in GlobalKinds
        => /\ glob'.trues <= 1
           /\ glob'.state = INIT => glob'.trues = 1 /\ glob'.GLOBAL = StorageOf(glob'.writer)
           /\ glob'.falses > glob.falses
                => glob.state # UNINIT /\ glob'.GLOBAL = glob.GLOBAL /\ glob'.state = glob.state
           /\ glob'.state # glob.state
                => <<glob.state, glob'.state>> \in {<<UNINIT, WRITING>>, <<WRITING, INIT>>}
           /\ glob'.GLOBAL # glob.GLOBAL => glob.state = WRITING /\ glob.GLOBAL = NoOpStorage
           /\ glob'.trues > glob.trues => glob.state = WRITING /\ glob'.state = INIT

\* C18: at most one call of set_global_storage returns true, and it is the one
\* whose storage is installed; every other call returns false and leaves the
\* stored reference unchanged; the state only goes from UNINIT to WRITING to INIT.
C18 == [][C18_Step]_vars

\* one call returned true and another, by the other thread, returned false
C18_Witness ==
    /\ kind \in GlobalKinds
    /\ glob.trues = 1 /\ glob.falses >= 1 /\ glob.state = INIT
    /\ \E t \in Threads : t # glob.writer /\ glob.seen[t] # UNINIT

\* C19: a request through Global that did not observe INIT is served by the
\* no-op backend and returns Err; a request that observed INIT is served by
\* the installed storage, never by the reference as it was before the writer
\* finished storing it.
C19 ==
    kind \in GlobalKinds
        => \A t \in Threads :
               LET r == glob.request[t]
               IN  r.by # "none"
                    => /\ r.observed # INIT => r.by = NoOpStorage /\ ~r.ok
                       /\ r.observed = INIT => r.by = glob.GLOBAL /\ r.by # NoOpStorage

----------------------------------------------------------------------------
(* SingleStackStorage: the properties *)

\* C21: for every single-threaded sequence of allocate, allocate_nonempty and
\* deallocate calls on a SingleStackStorage, the exclusive methods and the
\* shared methods return the same Ok / Err results and leave the same
\* allocated flag.
C21 ==
    kind = "single" => single.ok = single.twin_ok /\ single.allocated = single.twin

\* the non-empty blocks held by the threads
SingleHolders == {t \in Threads : \E l \in single.held[t] : NonEmptyLayout_new(l)}

C22_Step ==
    kind = "single_mt"
        => /\ Cardinality(SingleHolders') <= 1
           /\ single'.allocated <=> SingleHolders' # {}
           /\ single'.op = "allocate_nonempty"
                => single'.ok <=> (~single.allocated /\ fits(single'.arg))
           /\ single'.op = "deallocate_nonempty" => ~single'.allocated

\* C22: a SingleStackStorage holds at most one non-empty allocation at a time:
\* of the calls of allocate_nonempty and shared_allocate_nonempty on a free
\* slot one gets Ok and the others, made while the slot is occupied, get Err;
\* after deallocate_nonempty the slot is free and can be allocated again.
C22 == [][C22_Step]_vars

\* the slot was given, freed and given again, and a thread was then refused
\* it while the other thread held it
C22_Witness ==
    /\ kind = "single_mt"
    /\ single.served >= 2
    /\ single.op = "allocate_nonempty" /\ ~single.ok /\ fits(single.arg)
    /\ \E t \in Threads : t # single.by /\ single.held[t] # {}

----------------------------------------------------------------------------
(* FreeListStorage: the backoff of the shared calls *)

\* thread t is inside the `while waiter.spin()` loop of shared_allocate_nonempty
\* or shared_deallocate_nonempty
InScan(t) == pc[t] \in {"a_load", "d_load", "a_lock", "d_lock", "a_cs", "d_cs"}

\* the steps of thread t inside attempt_shared_allocate / attempt_shared_deallocate
ScanStep(t) ==
    FreeListLoad(t) \/ FreeListFetchOr(t) \/ FreeListAllocScan(t) \/ FreeListDeallocScan(t)

\* the callers of the pool where thread 1 keeps running when it has a step to
\* take inside a scan; nothing is asked of the other threads, which may stay
\* inside a critical section for ever
SpecPoolFair == InitFreeList /\ [][NextPool]_vars /\ WF_vars(ScanStep(1))

\* C23: shared_allocate_nonempty and shared_deallocate_nonempty never block
\* indefinitely: a call scans the bitmap at most 7 times (the backoff limit) and
\* then falls through to the underlying backend (or returns), even if another
\* thread holds a bucket lock for ever.  (A behaviour in which a record was
\* read outside the slot array is followed no further, so the call is required
\* to leave its scans in the behaviours that are followed.)
C23 ==
    /\ [](\A t \in Threads : InScan(t) => loc[t].step <= 7)
    /\ (InScan(1) ~> (~InScan(1) \/ Halted))

\* a call in its seventh scan while another thread holds the bucket's lock
C23_Witness ==
    \E t \in Threads :
        /\ InScan(t)
        /\ loc[t].step = 7
        /\ \E u \in Threads \ {t} : InCriticalSection(u, loc[t].i)

----------------------------------------------------------------------------
(* FreeListStorage: the properties of the exclusive flush *)

\* the calls among `calls` that pass the record of slot k to deallocate_nonempty
PassedOn(calls, k) ==
    {n \in DOMAIN calls :
        calls[n] = StorageCall("deallocate_nonempty", free_list[k + 1].handle,
                               free_list[k + 1].layout)}

C24_Step ==
    /\ (kind \in FreeListKinds /\ last'.op \in FlushOps) =>
          /\ \A n \in DOMAIN bitflags' : bitflags'[n] = 0
          /\ Len(inner'.calls) = Cardinality(FilledBits)
          /\ \A k \in FilledBits :
                /\ k < max_length
                /\ Cardinality(PassedOn(inner'.calls, k))
                     = Cardinality({m \in FilledSlots : free_list[m + 1] = free_list[k + 1]})
    /\ (kind \in FreeListKinds /\ last.op \in FlushOps
            /\ last'.op = "allocate" /\ last'.nonempty) =>
          /\ inner'.slot = None
          /\ inner'.calls = <<StorageCall("allocate_nonempty", None, last'.new)>>

\* C24: after the exclusive flush or try_flush every status bit of the pool is
\* 0 and each (handle, layout) that was pooled before the call has been passed
\* exactly once to the backend's deallocate_nonempty; an allocate_nonempty that
\* follows goes to the backend.
C24 == [][C24_Step]_vars

\* the same for the pools whose filled bits all belong to slots of the array
C24_InArray == [][FilledBits \subseteq 0 .. max_length - 1 => C24_Step]_vars

----------------------------------------------------------------------------
(* FreeListStorage: the properties of the shared flush *)

\* the steps of thread t inside a call it has begun
ThreadStep(t) ==
    \/ ScanStep(t)
    \/ BumpSharedLoad(t) \/ BumpSharedCas(t)
    \/ FreeListFlushLoad(t) \/ FreeListFlushReload(t) \/ FreeListFlushCas(t)
    \/ FreeListFlushScan(t)

\* every thread that is inside a call keeps running: in particular a thread
\* that has set a bucket's lock bit goes on to the store that clears it
SpecFreeListFair ==
    InitFreeList /\ [][NextFreeList]_vars /\ \A t \in Threads : WF_vars(ThreadStep(t))

\* thread t's compare_exchange claims bucket loc[t].i in this step
FlushClaims(t) == pc[t] = "f_cas" /\ pc'[t] = "f_cs"

C25_Step ==
    \A t \in Threads :
        (FlushClaims(t) /\ call[t].op = "shared_flush") =>
            /\ ~is_locked(bitflags[loc[t].i + 1])
            /\ \A u \in Threads \ {t} : ~InCriticalSection(u, loc[t].i)

\* C25: with every thread running on (so that a lock bit that was set is
\* cleared), shared_flush terminates, and it claims a bucket only when the
\* bucket's lock has been released, no other thread being inside the bucket's
\* critical section, so that the entries it passes to the backend are not also
\* handed to a concurrent allocator.
C25 ==
    /\ [][C25_Step]_vars
    /\ \A t \in Threads : (call[t].op = "shared_flush") ~> (pc[t] = "idle" \/ Halted)

\* thread t is inside try_shared_flush
TryFlushing(t) == call[t].op = "try_shared_flush"

\* the byte of the bucket thread t is at
BucketByte(t) == bitflags[loc[t].i + 1]

\* thread t takes a step of its call
Moves(t) == pc'[t] # pc[t] \/ loc'[t] # loc[t]

\* `completed` of thread t's shared_shallow_flush after this step: the local, or
\* the value returned when the step ends the call
CompletedAfter(t) == loc'[t].completed

\* thread t's try_shared_flush leaves the bucket it is at without claiming it
PassesOver(t) ==
    /\ TryFlushing(t)
    /\ pc[t] \in {"f_load", "f_cas"}
    /\ pc'[t] = "idle" \/ loc'[t].i = loc[t].i + 1

\* try_shared_flush claims no bucket whose lock bit is set, and `completed`,
\* once false, stays false
C26_Claims ==
    \A t \in Threads :
        /\ (FlushClaims(t) /\ TryFlushing(t)) => ~test_bit(BucketByte(t), 7)
        /\ (TryFlushing(t) /\ Moves(t) /\ ~loc[t].completed) => ~CompletedAfter(t)

\* C26 as stated: try_shared_flush never takes over a bucket whose lock bit is
\* set, and reports completion only if it passed over no bucket whose lock bit
\* was set.
C26_AnyLockedBucket ==
    [][/\ C26_Claims
       /\ \A t \in Threads :
             (PassesOver(t) /\ test_bit(BucketByte(t), 7)) => ~CompletedAfter(t)]_vars

\* C26: try_shared_flush never takes over a bucket whose lock bit is set, and
\* reports completion only if it passed over no bucket whose byte had the lock
\* bit set together with a status bit; a locked bucket whose status bits are
\* all 0 is passed over as an empty one.
C26 ==
    [][/\ C26_Claims
       /\ \A t \in Threads :
             (PassesOver(t) /\ test_bit(BucketByte(t), 7) /\ BucketByte(t) # SINGLE_LOCK)
                => ~CompletedAfter(t)]_vars

\* try_shared_flush returned false while another thread was inside the critical
\* section of a bucket with a filled slot
C26_Witness ==
    \E t \in Threads :
        /\ pc[t] = "idle" /\ ~loc[t].completed
        /\ \E u \in Threads : pc[u] \in {"a_cs", "d_cs"} /\ loc[u].status # 0
                              /\ test_bit(bitflags[loc[u].i + 1], 7)

----------------------------------------------------------------------------
(* BumpStorage: the bytes a resize copies *)

C27_Step ==
    (/\ kind \in BumpKinds
     /\ last'.op \in ResizeOps \cup SharedResizeOps
     /\ last'.res.ok
     /\ ~same_layout(last'.old, last'.new)) =>
        /\ last'.copied = IF last'.op \in {"shrink", "shared_shrink"}
                          THEN last'.new.size ELSE last'.old.size
        /\ last'.copied <= last'.old.size

\* C27: a resize that moves the block copies exactly old.size bytes on grow and
\* exactly new.size bytes on shrink, and never reads more than old.size bytes
\* of the old block, also when the new block's reported size is larger than
\* the size asked for.
C27 == [][C27_Step]_vars

----------------------------------------------------------------------------
(* BumpStorage: the block of a successful allocation *)

\* x rounded down to a multiple of a
RoundedDown(x, a) == x - (x % a)

C28_Step ==
    (/\ kind \in BumpKinds
     /\ last'.op \in {"allocate", "shared_allocate"}
     /\ last'.nonempty
     /\ last'.res.ok) =>
        LET o == last'.before
            s == last'.new.size
            a == last'.new.align
        IN  /\ offset' = RoundedDown(o - s, a)
            /\ last'.res.handle = offset'
            /\ last'.res.size = o - offset'
            /\ last'.res.size >= s
            /\ remaining_space' = offset'

\* C28: a successful allocation of (size s, align a) at offset o sets the offset
\* to (o - s) rounded down to a multiple of a, returns that value as the handle
\* and o minus the new offset (>= s) as the size of the block, and
\* remaining_space() then returns the new offset; through &mut self and through
\* &self alike.
C28 == [][C28_Step]_vars

\* a shared allocation whose offset was rounded down, so that the block is
\* larger than asked for
C28_Witness ==
    /\ kind \in BumpKinds
    /\ last.op = "shared_allocate" /\ last.nonempty /\ last.res.ok
    /\ last.res.size > last.new.size
    /\ last.res.handle = remaining_space
    /\ \E n \in DOMAIN issued : issued[n].handle = last.res.handle

\* the same through &mut self
C28_Exclusive ==
    /\ kind \in BumpKinds
    /\ last.op = "allocate" /\ last.nonempty /\ last.res.ok
    /\ last.res.size > last.new.size

----------------------------------------------------------------------------
(* FreeListStorage: when a shared call scans again *)

\* thread t's next step ends a scan that found nothing: it is at the last
\* bucket and skips it, loses the race for it, or finds no slot in it
ScanEndsEmpty(t) ==
    /\ loc[t].i + 1 = Len(bitflags)
    /\ \/ pc[t] = "a_load" /\ (test_bit(BucketByte(t), 7) \/ BucketByte(t) = 0)
       \/ pc[t] = "d_load" /\ (test_bit(BucketByte(t), 7) \/ BucketByte(t) = MASK_STATUS)
       \/ pc[t] \in {"a_lock", "d_lock"} /\ test_bit(BucketByte(t), 7)
       \/ pc[t] = "a_cs" /\ pc'[t] # "idle"
       \/ pc[t] = "d_cs" /\ loc[t].status % SINGLE_LOCK = MASK_STATUS

\* in the scan that thread t's next step ends, a byte was observed locked: by
\* the load or the fetch_or of this step, or as was_blocked remembers
ObservedLocked(t) ==
    \/ loc[t].was_blocked
    \/ pc[t] \in {"a_load", "d_load", "a_lock", "d_lock"} /\ test_bit(BucketByte(t), 7)

\* thread t begins another scan of the whole bitmap
ScansAgain(t) ==
    /\ pc'[t] \in {"a_load", "d_load"}
    /\ loc'[t].i = 0
    /\ loc'[t].step = loc[t].step + 1

C29_Step ==
    \A t \in Threads :
        (/\ kind \in FreeListKinds
         /\ InScan(t)
         /\ Moves(t)
         /\ ScanEndsEmpty(t)
         /\ loc[t].step <= SPIN_LIMIT) =>
            (ObservedLocked(t) <=> ScansAgain(t))

\* C29: in shared_allocate_nonempty and shared_deallocate_nonempty, a scan that
\* finds nothing and in which some byte was observed locked (by the load, or by
\* losing the fetch_or race) is followed by another scan of the whole bitmap
\* until the backoff limit is reached; before the limit the call goes to the
\* backend only after a scan in which no byte was observed locked.
C29 == [][C29_Step]_vars

----------------------------------------------------------------------------
(* FreeListStorage: the exclusive and the shared calls of one caller *)

\* the single caller's shared_allocate / shared_deallocate returns in this step
SharedReturns ==
    /\ kind = "freelist"
    /\ pc[1] # "idle" /\ pc'[1] = "idle"
    /\ call[1].op \in {"shared_allocate", "shared_deallocate"}

\* the bitmap as the single caller's shared call found it: before it set a
\* lock bit of its own
StatusBits == [n \in DOMAIN bitflags |-> bitflags[n] % SINGLE_LOCK]

Outcome(res, bf, fl, calls, off) ==
    [ok |-> res.ok, handle |-> res.handle, size |-> res.size, bitflags |-> bf,
     free_list |-> fl, calls |-> calls, offset |-> off]

\* what allocate_nonempty(layout) through &mut self can do from this pool
ExclusiveAllocate(layout) ==
    {IF r.found
     THEN Outcome(Ok(r.handle, layout.size), r.bitflags, free_list, << >>, offset)
     ELSE LET a == Storage_allocate(offset, layout)
          IN  Outcome(a.res, r.bitflags, free_list,
                      <<StorageCall("allocate_nonempty", None, layout)>>, a.offset) :
     r \in attempt_allocate(free_list, StatusBits, layout)}

\* what deallocate_nonempty(handle, layout) through &mut self can do from this pool
ExclusiveDeallocate(handle, layout) ==
    {Outcome(Ok(handle, 0), r.bitflags, r.free_list,
             IF r.pooled THEN << >>
             ELSE <<StorageCall("deallocate_nonempty", handle, layout)>>, offset) :
     r \in attempt_deallocate(free_list, StatusBits, handle, layout)}

\* the call of the backend through &mut self that corresponds to one through &self
ExclusiveCall(c) ==
    [c EXCEPT !.op = IF c.op = "shared_allocate_nonempty" THEN "allocate_nonempty"
                     ELSE IF c.op = "shared_deallocate_nonempty" THEN "deallocate_nonempty"
                     ELSE c.op]

\* what the shared call that returns in this step has done
SharedOutcome ==
    Outcome(last'.res, bitflags', free_list',
            [n \in DOMAIN inner'.calls |-> ExclusiveCall(inner'.calls[n])], offset')

C30_Step ==
    SharedReturns =>
        SharedOutcome \in IF call[1].op = "shared_allocate"
                          THEN ExclusiveAllocate(call[1].new)
                          ELSE ExclusiveDeallocate(call[1].handle, call[1].old)

\* C30: with one caller, from the same pool state shared_allocate_nonempty and
\* shared_deallocate_nonempty return the same handle and size as
\* allocate_nonempty and deallocate_nonempty, make the same calls to the
\* backend, and leave the same status bits and slot records.
C30 == [][C30_Step]_vars

\* the same for the calls that read and write no record outside the slot array
C30_InArray == [][oob' = "no" => C30_Step]_vars

----------------------------------------------------------------------------
(* AffixStorage: allocate followed by deallocate *)

\* this step is deallocate(h, L) of the block that the allocate(L) just before
\* it returned
C31_Case ==
    /\ kind = "affix"
    /\ last.op = "allocate" /\ last.nonempty /\ last.res.ok
    /\ last'.op = "deallocate"
    /\ last'.arg = last.res.handle
    /\ last'.old = last.new

\* C31: allocate(L) followed by deallocate(h, L) passes to the inner deallocate
\* exactly the handle that the inner allocate returned (on the bump allocator:
\* the offset it moved to) and the combined layout of the allocation; the
\* caller's handle is the inner handle moved forward by the prefix offset of
\* surround, and split(ptr, L) finds the prefix at ptr minus that offset.
C31 ==
    [][C31_Case =>
        /\ inner'.calls = <<StorageCall("deallocate_nonempty", offset, inner.calls[1].layout)>>
        /\ inner.calls[1].op = "allocate_nonempty"
        /\ last.res.handle = offset + surround(last.new).prefix
        /\ split(last.res.handle, last.new).prefix = offset]_vars

\* a block with a two-byte prefix was deallocated directly after its allocation
C31_Witness ==
    /\ kind = "affix"
    /\ last.op = "deallocate"
    /\ inner.calls # << >>
    /\ inner.calls[1].handle = offset
    /\ last.arg = offset + 2
    /\ affix.pre.size = 2
    /\ last.old.size > 0

----------------------------------------------------------------------------
(* Pad: the properties *)

\* the least multiple of a that is at least n
RoundedUp(n, a) == CHOOSE m \in n .. n + a - 1 : m % a = 0

\* the layout the padding of `layout` is to have
Padded(layout) ==
    LET align == IF layout.align >= pad.ALIGN THEN layout.align ELSE pad.ALIGN
        size == IF layout.size >= pad.SIZE THEN layout.size ELSE pad.SIZE
    IN  Layout(RoundedUp(size, align), align)

C32_Step ==
    /\ (kind = "pad" /\ last'.op = "allocate" /\ inner'.calls # << >>) =>
          /\ inner'.calls = <<StorageCall(IF pad.SIZE = 0 THEN "allocate"
                                          ELSE "allocate_nonempty",
                                          None, Padded(last'.new))>>
          /\ Padded(Padded(last'.new)) = Padded(last'.new)
    /\ (kind = "pad" /\ last'.op = "deallocate") =>
          /\ inner'.calls = <<StorageCall(IF pad.SIZE = 0 THEN "deallocate"
                                          ELSE "deallocate_nonempty",
                                          last'.arg, Padded(last'.old))>>
          /\ \A n \in DOMAIN issued :
                issued[n].handle = last'.arg /\ issued[n].layout = last'.old
                    => issued[n].padded = inner'.calls[1].layout

\* C32: Pad forwards to the inner storage a layout whose alignment is the larger
\* of the requested alignment and ALIGN and whose size is the larger of the
\* requested size and SIZE, rounded up to a multiple of that alignment; padding
\* a padded layout changes nothing; and deallocate passes the inner storage the
\* padded layout that allocate passed for the same requested layout.
C32 == [][C32_Step]_vars

\* a block asked for with (size 1, align 1) and allocated as (size 2, align 2)
\* was deallocated
C32_Witness ==
    /\ kind = "pad"
    /\ last.op = "deallocate"
    /\ last.old = Layout(1, 1)
    /\ inner.calls # << >>
    /\ inner.calls[1].layout = Layout(2, 2)
    /\ inner.calls[1].op = "deallocate"

----------------------------------------------------------------------------
(* Picker: the child operation a resize calls *)

\* the name a Picker operation has in both traits: shared_grow is grow
TraitOp(op) ==
    CASE op \in {"grow", "shared_grow"} -> "grow"
      [] op \in {"grow_zeroed", "shared_grow_zeroed"} -> "grow_zeroed"
      [] op \in {"shrink", "shared_shrink"} -> "shrink"
      [] OTHER -> op

\* a resize on a Picker whose old and new layout select the same child
C33_Case ==
    /\ kind \in PickerKinds
    /\ last'.op \in {"grow", "grow_zeroed", "shrink",
                     "shared_grow", "shared_grow_zeroed", "shared_shrink"}
    /\ Selected(last'.old) = Selected(last'.new)

\* C33: when the old and the new layout select the same child, a resize on a
\* Picker calls that child's operation of the same name: grow calls grow,
\* grow_zeroed calls grow_zeroed and shrink calls shrink.
C33 ==
    [][C33_Case =>
        /\ Len(inner'.calls) = 1
        /\ inner'.calls[1].child = Selected(last'.old)
        /\ inner'.calls[1].op = TraitOp(last'.op)]_vars

----------------------------------------------------------------------------
(* SingleStackStorage: a grow that fails *)

\* an exclusive grow or grow_zeroed has returned Err for a new layout that
\* does not fit the slot
C34_Case ==
    /\ kind = "single"
    /\ single'.op \in {"grow", "grow_zeroed"}
    /\ ~single'.ok
    /\ ~fits(single'.arg)

\* C34: when the exclusive grow or grow_zeroed of a SingleStackStorage returns
\* Err because the new layout does not fit, the allocated flag is unchanged,
\* so a following allocate_nonempty still fails while the caller holds its block.
C34 ==
    [][C34_Case =>
        /\ single'.allocated = single.allocated
        /\ (\E l \in single'.held[1] : NonEmptyLayout_new(l))
                => ~Single_allocate_nonempty(single'.allocated, Layout(1, 1)).ok]_vars

----------------------------------------------------------------------------
(* AffixStorage: a shrink whose inner shrink fails *)

\* a shrink on an AffixStorage with a suffix has returned Err from the inner
\* storage's shrink, and no access of it has left the memory
C35_Case ==
    /\ kind = "affix_mem"
    /\ last'.op = "shrink"
    /\ last'.nonempty
    /\ ~last'.res.ok
    /\ affix.suf.size # 0
    /\ Regions(last'.arg, last'.old) \subseteq DOMAIN mem
    /\ oob' = "no"

\* C35: when the inner storage's shrink fails during AffixStorage::shrink with a
\* non-empty suffix, the payload bytes and the suffix bytes of the old block are
\* unchanged.
C35 ==
    [][C35_Case =>
        /\ Carried(last'.arg, last'.arg, last'.old.size)
        /\ Carried(split(last'.arg, last'.old).suffix, split(last'.arg, last'.old).suffix,
                   affix.suf.size)]_vars

----------------------------------------------------------------------------
(* FreeListStorage: the layouts passed back to the backend *)

\* the backend's allocate returned `handle` for `layout`
ObtainedWith(handle, layout) ==
    \E i \in DOMAIN issued : issued[i].handle = handle /\ issued[i].layout = layout

\* every block the call just completed passed to the backend's
\* deallocate_nonempty carries the layout the backend allocated it with
C36_Step ==
    kind \in FreeListKinds
        => \A n \in DOMAIN inner'.calls :
              inner'.calls[n].op = "deallocate_nonempty"
                  => ObtainedWith(inner'.calls[n].handle, inner'.calls[n].layout)

\* C36: after any sequence of allocate, deallocate and flush on a
\* FreeListStorage, every (handle, layout) that the free list passes to the
\* backend's deallocate, on pool overflow or during flush, carries the layout
\* with which that handle was obtained from the backend's allocate.
C36 == [][C36_Step]_vars

\* the same for the pools whose filled bits all belong to slots of the array
C36_InArray ==
    [][(FilledBits \subseteq 0 .. max_length - 1 /\ oob' = "no") => C36_Step]_vars

----------------------------------------------------------------------------
(* FreeListStorage: the lock bits between the calls *)

\* some bitmap byte has its lock bit set
SomeLocked == \E n \in DOMAIN bitflags : test_bit(bitflags[n], 7)

----------------------------------------------------------------------------
(* RefCounted: the strong counter and the live handles *)

\* C38: for the strong handles of one reference-counted allocation, after any
\* sequence of clone, clone_from and drop the strong counter equals the number
\* of live strong handles of the allocation, so the value is destroyed exactly
\* when the last such handle is dropped.
C38 ==
    kind \in RcKinds
        => /\ rc.init = rc.handles
           /\ (AllIdle /\ rc.op = "drop" /\ rc.handles = 0) => rc.destroyed = 1
           /\ rc.handles > 0 => rc.destroyed = 0

====
